---------------------------- MODULE Spec2Model ----------------------------
(***************************************************************************)
(* A model of the barbarian-ultimate VOD archive server (src/unnamed/      *)
(* part_001, the full server; src/server.js is an earlier revision with    *)
(* the same manifest and MP4 handlers).                                    *)
(*                                                                         *)
(* Texts (manifests, URLs) are sequences of one-character strings, so that *)
(* the regular-expression replacements of GET /api/video/:videoId are      *)
(* computed character by character, the way String.prototype.replace does. *)
(***************************************************************************)
EXTENDS Integers, Sequences, FiniteSets, TLC

VARIABLES
    m3u8Content,      \* the manifest text handed to the rewrite
    modifiedContent,  \* the text the rewrite produced (<<>> before it ran)
    passes,           \* how many times the rewrite has been applied
    reqs,             \* the client requests of the server, by request number
    video,            \* a request of GET /api/video/:videoId
    timecodes,        \* a request of GET /api/chat/:videoId and its client
    chat,             \* a request of GET /api/chat/:videoId/:startTime/:endTime
    dur,              \* a call of getVideoDuration
    meta,             \* the metadata store file, its reconciliations and readers
    emote,            \* a request under /api/emote/ and the emote tables
    mappings,         \* the emote mappings of the server and their refreshes
    player,           \* the video element of the page and its saved position
    pager,            \* the filter and the pagination of the video list
    grid,             \* the video-item elements kept in the grid
    pane              \* the chat pane and the per-second chat requests

rewriteVars == <<m3u8Content, modifiedContent, passes>>
handlerVars == <<video, timecodes, chat, dur>>
storeVars == <<meta, emote>>
pageVars == <<mappings, player, pager, grid, pane>>
vars == <<m3u8Content, modifiedContent, passes, reqs, video, timecodes, chat, dur,
          meta, emote, mappings, player, pager, grid, pane>>

\* A handler that has not been called.
Idle == [pc |-> "idle"]
HandlersIdle ==
    /\ video = Idle
    /\ timecodes = Idle
    /\ chat = Idle
    /\ dur = Idle
    /\ meta = Idle
    /\ emote = Idle
    /\ mappings = Idle
    /\ player = Idle
    /\ pager = Idle
    /\ grid = Idle
    /\ pane = Idle

---------------------------------------------------------------------------
(* Bounds of the model *)

\* A manifest text is the concatenation of at most MaxPieces pieces.
MaxPieces == 3
\* Number of client requests the server handles (concurrently).
MaxReqs == 2
\* Longest relative container path, in path segments.
MaxDepth == 2
\* Chat seconds are 0..MaxSecond.
MaxSecond == 2
\* Most messages upstream returns, over all shards of one chat-range request.
MaxMessages == 3
\* Most lines of a manifest whose duration is computed.
MaxLines == 3
\* Index keys of the upstream video index are 1..MaxKeys.
MaxKeys == 2
\* Number of reconciliations run, the one of startup included.  The timer
\* runs its reconciliations one after the other, and so does the client of
\* GET /api/sync; one of each can run at a time.
MaxSyncs == 3

---------------------------------------------------------------------------
(* Literals of the source, as character sequences *)

\* `https://barbarian.men/macaw45/videos/` (the replacement of the .ts rule)
SegmentBase ==
    <<"h","t","t","p","s",":","/","/","b","a","r","b","a","r","i","a","n",
      ".","m","e","n","/","m","a","c","a","w","4","5","/","v","i","d","e",
      "o","s","/">>

\* `/api/mp4/` (the replacement of the two .mp4 rules, and the route prefix)
Mp4Prefix == <<"/","a","p","i","/","m","p","4","/">>

TsExt == <<".","t","s">>
Mp4Ext == <<".","m","p","4">>
UriOpen == <<"U","R","I","=","\"">>
Quote == "\""
HttpScheme == <<"h","t","t","p",":","/","/">>
HttpsScheme == <<"h","t","t","p","s",":","/","/">>
Hash == <<"#">>

\* The characters at which the m flag lets ^ and $ match, and which `.`
\* never matches (ECMAScript LineTerminator; U+2028 and U+2029 are left out
\* of the alphabet of the model).
LineTerminators == {"\n", "\r"}

---------------------------------------------------------------------------
(* The three replacements of GET /api/video/:videoId *)

StartsWithAt(s, i, lit) ==
    /\ i + Len(lit) - 1 <= Len(s)
    /\ SubSeq(s, i, i + Len(lit) - 1) = lit

EndsWith(s, lit) ==
    /\ Len(s) >= Len(lit)
    /\ SubSeq(s, Len(s) - Len(lit) + 1, Len(s)) = lit

\* ^ under the m flag: at the start of the text or right after a terminator.
IsLineStart(s, i) == i = 1 \/ s[i - 1] \in LineTerminators

\* Index of the last character of the line that position i lies in
\* (i - 1 when the line is empty from i on): where `.+` must stop and $ holds.
RECURSIVE LineEnd(_, _)
LineEnd(s, i) ==
    IF i > Len(s) \/ s[i] \in LineTerminators THEN i - 1 ELSE LineEnd(s, i + 1)

\* The lookahead without its # alternative: (?!https?:\/\/)
NotAbsoluteOnly(s, i) ==
    /\ ~StartsWithAt(s, i, HttpScheme)
    /\ ~StartsWithAt(s, i, HttpsScheme)

\* (?!https?:\/\/|#) at position i
NotAbsoluteNorDirective(s, i) ==
    /\ ~StartsWithAt(s, i, HttpScheme)
    /\ ~StartsWithAt(s, i, HttpsScheme)
    /\ ~StartsWithAt(s, i, Hash)

\* /^(?!https?:\/\/|#)(.+<ext>)$/m tried at position i: the index of the last
\* character of the match, or 0 when there is none. `.+` takes at least one
\* character, none of them a terminator, and $ holds only at the line's end,
\* so a match is the whole line.
MatchBareLine(s, i, ext) ==
    IF IsLineStart(s, i) /\ NotAbsoluteNorDirective(s, i)
    THEN LET e == LineEnd(s, i)
         IN  IF e - i + 1 >= Len(ext) + 1 /\ SubSeq(s, e - Len(ext) + 1, e) = ext
             THEN e ELSE 0
    ELSE 0

\* s.replace(/^(?!https?:\/\/|#)(.+<ext>)$/gm, prefix + "$1"), from the line
\* start i on. A match begins at a line start and never holds a terminator,
\* so the scan goes line by line: a matching line is replaced by prefix + $1,
\* any other line and every terminator is copied.
RECURSIVE ReplaceBareLinesFrom(_, _, _, _)
ReplaceBareLinesFrom(s, i, ext, prefix) ==
    IF i > Len(s) THEN <<>>
    ELSE LET e == LineEnd(s, i)
             line == SubSeq(s, i, e)
             rest == IF e >= Len(s) THEN <<>>
                     ELSE <<s[e + 1]>> \o ReplaceBareLinesFrom(s, e + 2, ext, prefix)
         IN  IF MatchBareLine(s, i, ext) # 0
             THEN prefix \o line \o rest
             ELSE line \o rest

\* The same replacement without the g flag: only the first match is replaced.
RECURSIVE ReplaceFirstBareLineFrom(_, _, _, _)
ReplaceFirstBareLineFrom(s, i, ext, prefix) ==
    IF i > Len(s) THEN <<>>
    ELSE LET e == LineEnd(s, i)
         IN  IF MatchBareLine(s, i, ext) # 0
             THEN prefix \o SubSeq(s, i, Len(s))
             ELSE IF e >= Len(s) THEN SubSeq(s, i, e)
             ELSE SubSeq(s, i, e + 1)
                      \o ReplaceFirstBareLineFrom(s, e + 2, ext, prefix)

ReplaceFirstBareLine(s, ext, prefix) == ReplaceFirstBareLineFrom(s, 1, ext, prefix)

ReplaceBareLines(s, ext, prefix) == ReplaceBareLinesFrom(s, 1, ext, prefix)

\* Index of the first '"' at or after position i, 0 when there is none.
RECURSIVE NextQuote(_, _)
NextQuote(s, i) ==
    IF i > Len(s) THEN 0
    ELSE IF s[i] = Quote THEN i
    ELSE NextQuote(s, i + 1)

\* /URI="([^"]+\.mp4)"/ tried at position i: the index of the closing quote,
\* or 0. [^"]+ matches any character but '"' (terminators included), so the
\* group is the whole run up to the next quote, which must end in .mp4 and
\* hold at least one character before it.
MatchUriAttr(s, i) ==
    IF StartsWithAt(s, i, UriOpen)
    THEN LET q == NextQuote(s, i + Len(UriOpen))
         IN  IF /\ q # 0
                /\ q - (i + Len(UriOpen)) >= Len(Mp4Ext) + 1
                /\ SubSeq(s, q - Len(Mp4Ext), q - 1) = Mp4Ext
             THEN q ELSE 0
    ELSE 0

\* Index of the first occurrence of URI=" at or after position i, 0 when
\* there is none.
RECURSIVE NextUriOpen(_, _)
NextUriOpen(s, i) ==
    IF i + Len(UriOpen) - 1 > Len(s) THEN 0
    ELSE IF s[i] = "U" /\ StartsWithAt(s, i, UriOpen) THEN i
    ELSE NextUriOpen(s, i + 1)

\* s.replace(/URI="([^"]+\.mp4)"/g, 'URI="/api/mp4/$1"'), from position i:
\* the text up to the next match is copied, the match is replaced, and the
\* scan resumes after the match (after the first character of a URI=" that
\* does not match).
RECURSIVE ReplaceUriAttrsFrom(_, _)
ReplaceUriAttrsFrom(s, i) ==
    LET k == NextUriOpen(s, i)
    IN  IF k = 0 THEN SubSeq(s, i, Len(s))
        ELSE LET q == MatchUriAttr(s, k)
             IN  IF q # 0
                 THEN SubSeq(s, i, k - 1) \o UriOpen \o Mp4Prefix
                          \o SubSeq(s, k + Len(UriOpen), q) \o ReplaceUriAttrsFrom(s, q + 1)
                 ELSE SubSeq(s, i, k) \o ReplaceUriAttrsFrom(s, k + 1)

ReplaceUriAttrs(s) == ReplaceUriAttrsFrom(s, 1)

\* The three replacements applied to the text with trailing terminators
\* dropped (as m3u8Content.trim() would).
RECURSIVE TrimEnd(_)
TrimEnd(s) ==
    IF s # <<>> /\ s[Len(s)] \in LineTerminators
    THEN TrimEnd(SubSeq(s, 1, Len(s) - 1)) ELSE s

RewriteTrimmed(s) ==
    ReplaceBareLines(
        ReplaceUriAttrs(ReplaceBareLines(TrimEnd(s), TsExt, SegmentBase)),
        Mp4Ext, Mp4Prefix)

\* modifiedContent of the handler: the three replacements, chained
Rewrite(s) ==
    ReplaceBareLines(
        ReplaceUriAttrs(ReplaceBareLines(s, TsExt, SegmentBase)),
        Mp4Ext, Mp4Prefix)

---------------------------------------------------------------------------
(* Manifest texts of the model *)

SegmentRef == <<"s",".","t","s">>
ContainerRef == <<"p",".","m","p","4">>

Pieces ==
    { SegmentRef,                           \* s.ts
      ContainerRef,                         \* p.mp4
      UriOpen \o ContainerRef \o <<Quote>>, \* URI="p.mp4"
      <<"d","/">>,                          \* a sub-directory
      <<"?","q">>,                          \* a query string
      UriOpen, <<Quote>>, Hash, HttpsScheme, HttpScheme,
      <<"\n">>, <<"\r">> }

RECURSIVE TextsOf(_)
TextsOf(n) ==
    IF n = 0 THEN { <<>> }
    ELSE LET shorter == TextsOf(n - 1)
         IN  shorter \cup { t \o p : t \in shorter, p \in Pieces }

Texts == TextsOf(MaxPieces)

---------------------------------------------------------------------------
(* The rewrite as a state machine: an upstream manifest is rewritten, and   *)
(* the result is fed to the rewrite once more.                             *)

InitRewrite ==
    /\ m3u8Content \in Texts
    /\ modifiedContent = <<>>
    /\ passes = 0
    /\ reqs = <<>>
    /\ HandlersIdle

RewriteManifest ==
    /\ passes = 0
    /\ modifiedContent' = Rewrite(m3u8Content)
    /\ passes' = 1
    /\ UNCHANGED m3u8Content

RewriteAgain ==
    /\ passes = 1
    /\ m3u8Content' = modifiedContent
    /\ modifiedContent' = Rewrite(modifiedContent)
    /\ passes' = 2

NextRewrite ==
    \/ RewriteManifest /\ UNCHANGED <<reqs, handlerVars, storeVars, pageVars>>
    \/ RewriteAgain /\ UNCHANGED <<reqs, handlerVars, storeVars, pageVars>>

SpecRewrite == InitRewrite /\ [][NextRewrite]_vars

---------------------------------------------------------------------------
(* The container proxy GET /api/mp4/:filename and the routes around it *)

\* A header is <<>> when absent and <<value>> when present.
NoHeader == <<>>

\* if (x) on a header value: absent and the empty string are falsy.
Truthy(h) == h # NoHeader /\ h[1] # ""

\* Range headers a client sends, and the range headers and statuses upstream
\* answers with.
ClientRanges == { NoHeader, <<"bytes=1000-1999">> }
UpstreamContentRanges == { NoHeader, <<"bytes 1000-1999/50000">> }
UpstreamAcceptRanges == { NoHeader, <<"bytes">> }
UpstreamStatuses == { 200, 206, 404, 500 }

\* response.ok of node-fetch
Ok(status) == status >= 200 /\ status <= 299

\* Relative container paths of a manifest: p.mp4 under at most MaxDepth - 1
\* directories.
RECURSIVE ContainerPathsOf(_)
ContainerPathsOf(n) ==
    IF n <= 1 THEN { ContainerRef }
    ELSE LET shallower == ContainerPathsOf(n - 1)
         IN  shallower \cup { <<"d","/">> \o q : q \in shallower }

ContainerPaths == ContainerPathsOf(MaxDepth)

\* What the rewrite emits for the bare line p, and the quoted value it emits
\* for the attribute URI="p": the URLs the player then requests.
EmittedBare(p) == Rewrite(p)
EmittedAttr(p) ==
    LET r == Rewrite(UriOpen \o p \o <<Quote>>)
    IN  SubSeq(r, Len(UriOpen) + 1, Len(r) - 1)

RootPath == <<"/">>
ApiPrefix == <<"/","a","p","i","/">>

HasSlash(t) == \E i \in 1..Len(t) : t[i] = "/"

\* The route /api/mp4/:filename of Express 4, /^\/api\/mp4\/(?:([^\/]+?))\/?$/ :
\* the value of :filename when the path matches, <<>> when it does not.
\* (:filename is one path segment; one trailing slash is allowed.)
Mp4RouteParam(path) ==
    IF ~StartsWithAt(path, 1, Mp4Prefix) THEN <<>>
    ELSE LET rest == SubSeq(path, Len(Mp4Prefix) + 1, Len(path))
             name == IF Len(rest) > 1 /\ rest[Len(rest)] = "/"
                     THEN SubSeq(rest, 1, Len(rest) - 1) ELSE rest
         IN  IF name # <<>> /\ ~HasSlash(name) THEN name ELSE <<>>

NewRequest(ref, url, range) ==
    [ ref |-> ref,                 \* the manifest reference the URL came from
      url |-> url,                 \* req.path
      range |-> range,             \* req.headers.range
      pc |-> "sent",               \* sent, fetching, streaming, done
      route |-> "none",            \* the handler the router chose
      fetches |-> 0,               \* upstream fetch() calls made for it
      upUrl |-> <<>>,              \* the URL fetched
      upRange |-> NoHeader,        \* the Range header of the fetch
      upResult |-> "none",         \* none, response, rejected
      upStatus |-> 0,              \* response.status
      upContentRange |-> NoHeader, \* response.headers.get('content-range')
      upAcceptRanges |-> NoHeader, \* response.headers.get('accept-ranges')
      status |-> 0,                \* the status sent to the client
      contentRange |-> NoHeader,   \* the Content-Range sent to the client
      acceptRanges |-> NoHeader,   \* the Accept-Ranges sent to the client
      upStream |-> "none",         \* response.body: none, open, ended
      client |-> "connected" ]     \* the client's connection: connected, gone

\* The handler without the Range forwarding: fetch(url) with no headers.
Mp4FetchNoRange(r) ==
    [ r EXCEPT !.route = "mp4",
               !.upUrl = SegmentBase \o Mp4RouteParam(r.url),
               !.upRange = NoHeader,
               !.fetches = r.fetches + 1,
               !.pc = "fetching" ]

\* The handler up to its await: the upstream URL is built from :filename, the
\* Range header is copied when the request has one, and fetch is called.
Mp4Fetch(r) ==
    [ r EXCEPT !.route = "mp4",
               !.upUrl = SegmentBase \o Mp4RouteParam(r.url),
               !.upRange = IF Truthy(r.range) THEN r.range ELSE NoHeader,
               !.fetches = r.fetches + 1,
               !.pc = "fetching" ]

\* The handler passing the upstream status through on a failed response.
Mp4NotOkPassStatus(r, status) ==
    [ r EXCEPT !.upResult = "response", !.upStatus = status,
               !.status = status, !.pc = "done" ]

\* The handler after the await, response not ok: 404 and return.
Mp4NotOk(r, status) ==
    [ r EXCEPT !.upResult = "response", !.upStatus = status,
               !.status = 404, !.pc = "done" ]

\* The handler never calling res.status(): Express answers 200.
Mp4OkAlways200(r, status, cr, ar) ==
    [ r EXCEPT !.upResult = "response", !.upStatus = status,
               !.upContentRange = cr, !.upAcceptRanges = ar,
               !.contentRange = IF Truthy(cr) THEN cr ELSE NoHeader,
               !.acceptRanges = IF Truthy(ar) THEN ar ELSE NoHeader,
               !.status = 200,
               !.upStream = "open",
               !.pc = "streaming" ]

\* The handler after the await, response ok: the two range headers are copied
\* when truthy, the upstream status is set, and the body is piped.
Mp4Ok(r, status, cr, ar) ==
    [ r EXCEPT !.upResult = "response", !.upStatus = status,
               !.upContentRange = cr, !.upAcceptRanges = ar,
               !.contentRange = IF Truthy(cr) THEN cr ELSE NoHeader,
               !.acceptRanges = IF Truthy(ar) THEN ar ELSE NoHeader,
               !.status = status,
               !.upStream = "open",
               !.pc = "streaming" ]

\* A catch block that fetches once more before giving up.
Mp4CatchRetry(r) ==
    IF r.fetches < 2
    THEN [ r EXCEPT !.upResult = "rejected", !.fetches = r.fetches + 1 ]
    ELSE [ r EXCEPT !.upResult = "rejected", !.status = 500, !.pc = "done" ]

\* The catch block: fetch rejected, 500.
Mp4Catch(r) ==
    [ r EXCEPT !.upResult = "rejected", !.status = 500, !.pc = "done" ]

\* response.body.pipe(res) when res closes before the body has ended: pipe
\* unpipes the body from res and does nothing else; the handler has no
\* listener on req or res and holds no AbortController.
Mp4ClientClosed(r) == [ r EXCEPT !.client = "gone", !.pc = "closed" ]

\* response.body.pipe(res) when the body ends: res.end().
Mp4BodyEnd(r) == [ r EXCEPT !.upStream = "ended", !.pc = "done" ]

\* app.get('*'): 404 for a path under /api/, index.html for any other.
Fallback(r) ==
    [ r EXCEPT !.route = "fallback",
               !.status = IF StartsWithAt(r.url, 1, ApiPrefix) THEN 404 ELSE 200,
               !.pc = "done" ]

---------------------------------------------------------------------------
(* The server as a state machine: requests are handled independently, each *)
(* suspended at its upstream fetch.                                        *)

Init ==
    /\ m3u8Content = <<>>
    /\ modifiedContent = <<>>
    /\ passes = 0
    /\ reqs = <<>>
    /\ HandlersIdle

\* The player requests a container reference the rewrite emitted, or a
\* browser requests the page.
ClientRequest ==
    /\ Len(reqs) < MaxReqs
    /\ \E range \in ClientRanges :
          \/ \E p \in ContainerPaths :
                \E url \in { EmittedBare(p), EmittedAttr(p) } :
                    reqs' = Append(reqs, NewRequest(p, url, range))
          \/ reqs' = Append(reqs, NewRequest(<<>>, RootPath, range))

\* The router reaches /api/mp4/:filename, the path matches, the handler runs
\* up to its await.
DispatchMp4(i) ==
    /\ reqs[i].pc = "sent"
    /\ Mp4RouteParam(reqs[i].url) # <<>>
    /\ reqs' = [reqs EXCEPT ![i] = Mp4Fetch(reqs[i])]

\* No earlier route matches: the request falls through to app.get('*').
DispatchFallback(i) ==
    /\ reqs[i].pc = "sent"
    /\ Mp4RouteParam(reqs[i].url) = <<>>
    /\ reqs' = [reqs EXCEPT ![i] = Fallback(reqs[i])]

\* The fetch resolves with an upstream response.
UpstreamRespond(i) ==
    /\ reqs[i].pc = "fetching"
    /\ \E status \in UpstreamStatuses, cr \in UpstreamContentRanges,
          ar \in UpstreamAcceptRanges :
          reqs' = [reqs EXCEPT ![i] =
                      IF Ok(status) THEN Mp4Ok(reqs[i], status, cr, ar)
                      ELSE Mp4NotOk(reqs[i], status)]

\* The fetch rejects (DNS, timeout, connection reset).
UpstreamReject(i) ==
    /\ reqs[i].pc = "fetching"
    /\ reqs' = [reqs EXCEPT ![i] = Mp4Catch(reqs[i])]

\* The piped body ends.
StreamEnd(i) ==
    /\ reqs[i].pc = "streaming"
    /\ reqs' = [reqs EXCEPT ![i] = Mp4BodyEnd(reqs[i])]

\* The client disconnects while the body is being piped to it.
ClientDisconnect(i) ==
    /\ reqs[i].pc = "streaming"
    /\ reqs' = [reqs EXCEPT ![i] = Mp4ClientClosed(reqs[i])]

Next ==
    \/ ClientRequest /\ UNCHANGED <<rewriteVars, handlerVars, storeVars, pageVars>>
    \/ \E i \in 1..Len(reqs) : DispatchMp4(i) /\ UNCHANGED <<rewriteVars, handlerVars, storeVars, pageVars>>
    \/ \E i \in 1..Len(reqs) : DispatchFallback(i) /\ UNCHANGED <<rewriteVars, handlerVars, storeVars, pageVars>>
    \/ \E i \in 1..Len(reqs) : UpstreamRespond(i) /\ UNCHANGED <<rewriteVars, handlerVars, storeVars, pageVars>>
    \/ \E i \in 1..Len(reqs) : UpstreamReject(i) /\ UNCHANGED <<rewriteVars, handlerVars, storeVars, pageVars>>
    \/ \E i \in 1..Len(reqs) : StreamEnd(i) /\ UNCHANGED <<rewriteVars, handlerVars, storeVars, pageVars>>
    \/ \E i \in 1..Len(reqs) : ClientDisconnect(i) /\ UNCHANGED <<rewriteVars, handlerVars, storeVars, pageVars>>

Spec == Init /\ [][Next]_vars

\* The event loop runs the handler of every request it has received, and
\* runs the continuation of a fetch once the fetch has settled; nothing
\* makes upstream answer a fetch or end a body.
ServerRuns ==
    \A i \in 1..MaxReqs :
        /\ WF_vars(i <= Len(reqs) /\ DispatchMp4(i)
                     /\ UNCHANGED <<rewriteVars, handlerVars, storeVars, pageVars>>)
        /\ WF_vars(i <= Len(reqs) /\ DispatchFallback(i)
                     /\ UNCHANGED <<rewriteVars, handlerVars, storeVars, pageVars>>)

SpecLive == Init /\ [][Next]_vars /\ ServerRuns

---------------------------------------------------------------------------
(* The manifest endpoint GET /api/video/:videoId *)

\* The handler up to its await: fetch of the upstream manifest.
VideoFetch ==
    [ pc |-> "fetching",
      upResult |-> "none",     \* none, response, rejected
      upStatus |-> 0,          \* response.status
      text |-> <<>>,           \* await response.text()
      rewrites |-> 0,          \* times the three replacements were applied
      status |-> 0,            \* the status sent to the client
      message |-> "",          \* the error text sent to the client
      body |-> <<>> ]          \* the manifest sent to the client

\* The handler without its `return`: 404 is set, then the manifest is
\* rewritten and sent all the same.
VideoNotOkFallsThrough(v, status, text) ==
    [ v EXCEPT !.upResult = "response", !.upStatus = status,
               !.text = text, !.rewrites = 1,
               !.status = 404, !.body = Rewrite(text), !.pc = "done" ]

\* !response.ok: 404 'Video not found', and return.
VideoNotOk(v, status, text) ==
    [ v EXCEPT !.upResult = "response", !.upStatus = status,
               !.status = 404, !.message = "Video not found", !.pc = "done" ]

\* response.ok: the text is rewritten and sent (res.send answers 200).
VideoOk(v, status, text) ==
    [ v EXCEPT !.upResult = "response", !.upStatus = status,
               !.text = text, !.rewrites = 1,
               !.status = 200, !.body = Rewrite(text), !.pc = "done" ]

\* The catch block: the fetch rejected, 500 'Error fetching video'.
VideoCatch(v) ==
    [ v EXCEPT !.upResult = "rejected",
               !.status = 500, !.message = "Error fetching video", !.pc = "done" ]

InitVideo ==
    /\ m3u8Content = <<>>
    /\ modifiedContent = <<>>
    /\ passes = 0
    /\ reqs = <<>>
    /\ HandlersIdle

VideoRequest ==
    /\ video.pc = "idle"
    /\ video' = VideoFetch

VideoUpstreamRespond ==
    /\ video.pc = "fetching"
    /\ \E status \in UpstreamStatuses, text \in Texts :
          video' = IF Ok(status) THEN VideoOk(video, status, text)
                   ELSE VideoNotOk(video, status, text)

VideoUpstreamReject ==
    /\ video.pc = "fetching"
    /\ video' = VideoCatch(video)

NextVideo ==
    \/ VideoRequest /\ UNCHANGED <<rewriteVars, reqs, storeVars, pageVars, timecodes, chat, dur>>
    \/ VideoUpstreamRespond /\ UNCHANGED <<rewriteVars, reqs, storeVars, pageVars, timecodes, chat, dur>>
    \/ VideoUpstreamReject /\ UNCHANGED <<rewriteVars, reqs, storeVars, pageVars, timecodes, chat, dur>>

SpecVideo == InitVideo /\ [][NextVideo]_vars

---------------------------------------------------------------------------
(* The chat-range endpoint GET /api/chat/:videoId/:startTime/:endTime *)

Digits == <<"0","1","2","3","4","5","6","7","8","9">>

IsDigit(c) == \E d \in 1..10 : Digits[d] = c
DigitValue(c) == (CHOOSE d \in 1..10 : Digits[d] = c) - 1

\* The longest run of digits of a string from position i on.
RECURSIVE DigitRun(_, _)
DigitRun(str, i) ==
    IF i <= Len(str) /\ IsDigit(str[i])
    THEN << str[i] >> \o DigitRun(str, i + 1)
    ELSE <<>>

\* The integer a run of digits writes.
RECURSIVE DigitsValue(_)
DigitsValue(ds) ==
    IF ds = <<>> THEN 0
    ELSE 10 * DigitsValue(SubSeq(ds, 1, Len(ds) - 1)) + DigitValue(ds[Len(ds)])

\* A conversion that gives 0 for a text that does not start with a digit.
ParseIntOrZero(str) ==
    [ nan |-> FALSE, n |-> DigitsValue(DigitRun(str, 1)) ]

\* parseInt of a route parameter: the integer its leading digits write, NaN
\* when it does not start with a digit (signs and spaces are not sent).
ParseInt(str) ==
    IF DigitRun(str, 1) = <<>> THEN [ nan |-> TRUE, n |-> 0 ]
    ELSE [ nan |-> FALSE, n |-> DigitsValue(DigitRun(str, 1)) ]

\* A field of a message is <<>> when absent and <<value>> when present.
Absent == <<>>

\* Messages of the upstream shard of second t: body tells the second and
\* the place in the shard, timestamp and video_timestamp are what upstream
\* supplies (or does not).
UpstreamFields ==
    { [ timestamp |-> Absent, video_timestamp |-> Absent ],
      [ timestamp |-> <<0>>, video_timestamp |-> <<5>> ],
      [ timestamp |-> <<1>>, video_timestamp |-> Absent ],
      [ timestamp |-> <<1>>, video_timestamp |-> <<5>> ] }

UpstreamShards(t, n) ==
    { [ k \in 1..Len(f) |->
          [ body |-> <<t, k>>,
            timestamp |-> f[k].timestamp,
            video_timestamp |-> f[k].video_timestamp ] ] :
      f \in UNION { [1..m -> UpstreamFields] : m \in 0..n } }

\* Stamping that keeps a video_timestamp upstream supplied.
StampUnlessPresent(messages, t) ==
    [ k \in 1..Len(messages) |->
        IF messages[k].video_timestamp = Absent
        THEN [ messages[k] EXCEPT !.video_timestamp = <<t>> ]
        ELSE messages[k] ]

\* messages.forEach(msg => { msg.video_timestamp = t; })
Stamp(messages, t) ==
    [ k \in 1..Len(messages) |-> [ messages[k] EXCEPT !.video_timestamp = <<t>> ] ]

\* (a.timestamp || 0)
TimestampOrZero(m) ==
    IF m.timestamp = Absent \/ m.timestamp[1] = 0 THEN 0 ELSE m.timestamp[1]

\* A comparator that looks at video_timestamp only.
CompareByVideoTimestamp(a, b) ==
    IF a.video_timestamp # b.video_timestamp
    THEN a.video_timestamp[1] - b.video_timestamp[1]
    ELSE 0

\* The comparator of allMessages.sort
CompareMessages(a, b) ==
    IF a.video_timestamp # b.video_timestamp
    THEN a.video_timestamp[1] - b.video_timestamp[1]
    ELSE TimestampOrZero(a) - TimestampOrZero(b)

\* Insertion that puts x before the elements it compares equal to.
RECURSIVE InsertBeforeEqual(_, _)
InsertBeforeEqual(sorted, x) ==
    IF sorted # <<>> /\ CompareMessages(sorted[Len(sorted)], x) >= 0
    THEN Append(InsertBeforeEqual(SubSeq(sorted, 1, Len(sorted) - 1), x),
                sorted[Len(sorted)])
    ELSE Append(sorted, x)

\* x put into a sorted array after every element that does not compare
\* greater than it.
RECURSIVE InsertSorted(_, _)
InsertSorted(sorted, x) ==
    IF sorted # <<>> /\ CompareMessages(sorted[Len(sorted)], x) > 0
    THEN Append(InsertSorted(SubSeq(sorted, 1, Len(sorted) - 1), x),
                sorted[Len(sorted)])
    ELSE Append(sorted, x)

\* Array.prototype.sort with the comparator: a stable sort (ECMAScript 2019,
\* V8 from 7.0 on), computed by insertion.
RECURSIVE SortMessages(_)
SortMessages(messages) ==
    IF messages = <<>> THEN <<>>
    ELSE InsertSorted(SortMessages(SubSeq(messages, 1, Len(messages) - 1)),
                      messages[Len(messages)])

\* A loop that stops one second early: t < end
LoopContinuesExclusive(t, end) == t < end

\* The loop condition t <= end
LoopContinues(t, end) == t <= end

\* After the loop: sort, res.json(allMessages).
ChatFinish(c) ==
    [ c EXCEPT !.pc = "done", !.status = 200, !.body = SortMessages(c.allMessages) ]

\* A loop head that starts the fetch of the shard after the next one too.
ChatLoopFetchesAhead(c) ==
    IF ~c.nan /\ LoopContinues(c.t, c.end)
    THEN [ c EXCEPT !.pc = "fetching",
                    !.fetched = Append(Append(c.fetched, c.t), c.t + 1) ]
    ELSE ChatFinish(c)

\* The loop head: the next shard is fetched, or the loop is left.  A
\* comparison with NaN is false.
ChatLoop(c) ==
    IF ~c.nan /\ LoopContinues(c.t, c.end)
    THEN [ c EXCEPT !.pc = "fetching", !.fetched = Append(c.fetched, c.t) ]
    ELSE ChatFinish(c)

\* The handler from its start to its first await (or to its end).
ChatStart(startTime, endTime) ==
    ChatLoop([ pc |-> "idle",
               startTime |-> startTime,         \* req.params.startTime
               endTime |-> endTime,             \* req.params.endTime
               start |-> ParseInt(startTime).n, \* parseInt(startTime), when
               end |-> ParseInt(endTime).n,     \* parseInt(endTime),   not NaN
               nan |-> ParseInt(startTime).nan \/ ParseInt(endTime).nan,
               t |-> ParseInt(startTime).n,     \* the loop variable
               allMessages |-> <<>>,
               fetched |-> <<>>,      \* the seconds whose shard was fetched
               outcomes |-> <<>>,     \* what upstream answered, fetch by fetch
               status |-> 0,
               body |-> <<>> ])

Outcome(t, kind, messages) == [ t |-> t, kind |-> kind, messages |-> messages ]

\* A loop body that does not look at response.ok.
ChatShardAnyStatus(c, ok, messages) ==
    ChatLoop([ c EXCEPT
        !.outcomes = Append(c.outcomes,
                            Outcome(c.t, IF ok THEN "ok" ELSE "notok", messages)),
        !.allMessages = c.allMessages \o Stamp(messages, c.t),
        !.t = c.t + 1 ])

\* The loop body after its await: the messages of an ok response are stamped
\* and pushed, any other response is passed over; then t++.
ChatShardResponse(c, ok, messages) ==
    ChatLoop([ c EXCEPT
        !.outcomes = Append(c.outcomes,
                            Outcome(c.t, IF ok THEN "ok" ELSE "notok", messages)),
        !.allMessages = IF ok THEN c.allMessages \o Stamp(messages, c.t)
                        ELSE c.allMessages,
        !.t = c.t + 1 ])

\* The inner catch (fetch rejected, or the body is not JSON): continue.
ChatShardCatch(c) ==
    ChatLoop([ c EXCEPT
        !.outcomes = Append(c.outcomes, Outcome(c.t, "rejected", <<>>)),
        !.t = c.t + 1 ])

\* Number of messages upstream has sent so far, in ok and other responses.
RECURSIVE SentCount(_)
SentCount(outcomes) ==
    IF outcomes = <<>> THEN 0
    ELSE Len(outcomes[Len(outcomes)].messages)
             + SentCount(SubSeq(outcomes, 1, Len(outcomes) - 1))

InitChat ==
    /\ m3u8Content = <<>>
    /\ modifiedContent = <<>>
    /\ passes = 0
    /\ reqs = <<>>
    /\ HandlersIdle

\* The route parameters clients send: the seconds 0..MaxSecond, and texts
\* that are not integers.
TimeTexts ==
    { << Digits[n + 1] >> : n \in 0..MaxSecond } \cup { <<"x">>, <<"1","x">> }

ChatRequest ==
    /\ chat.pc = "idle"
    /\ \E startTime, endTime \in TimeTexts : chat' = ChatStart(startTime, endTime)

\* Upstream answers the fetch of shard t: with a 2xx status and the messages
\* of the shard, or with another status and a body of at most one message.
ChatShardRespond ==
    /\ chat.pc = "fetching"
    /\ LET room == MaxMessages - SentCount(chat.outcomes)
       IN  \/ \E messages \in UpstreamShards(chat.t, room) :
                 chat' = ChatShardResponse(chat, TRUE, messages)
           \/ \E messages \in UpstreamShards(chat.t, IF room > 1 THEN 1 ELSE room) :
                 chat' = ChatShardResponse(chat, FALSE, messages)

ChatShardReject ==
    /\ chat.pc = "fetching"
    /\ chat' = ChatShardCatch(chat)

NextChat ==
    \/ ChatRequest /\ UNCHANGED <<rewriteVars, reqs, storeVars, pageVars, video, timecodes, dur>>
    \/ ChatShardRespond /\ UNCHANGED <<rewriteVars, reqs, storeVars, pageVars, video, timecodes, dur>>
    \/ ChatShardReject /\ UNCHANGED <<rewriteVars, reqs, storeVars, pageVars, video, timecodes, dur>>

SpecChat == InitChat /\ [][NextChat]_vars

---------------------------------------------------------------------------
(* The chat-timecodes endpoint GET /api/chat/:videoId and the client's
   loadChatTimecodes *)

\* JSON values: an array of seconds, an object with an error text, or a body
\* that is not JSON at all.
JsonArray(items) == [ kind |-> "array", items |-> items, error |-> "" ]
JsonError(text) == [ kind |-> "object", items |-> <<>>, error |-> text ]
NotJson == [ kind |-> "invalid", items |-> <<>>, error |-> "" ]

\* The arrays timecodes.json can hold: seconds, none twice.
TimecodeArrays ==
    { items \in UNION { [1..n -> 0..MaxSecond] : n \in 0..(MaxSecond + 1) } :
        \A i, j \in 1..Len(items) : items[i] = items[j] => i = j }

UpstreamBodies ==
    { JsonArray(items) : items \in TimecodeArrays } \cup { JsonError("upstream"), NotJson }

\* The handler up to its await of fetch(timecodesUrl).
TimecodesFetch ==
    [ pc |-> "fetching", upResult |-> "none", upStatus |-> 0, upBody |-> NotJson,
      status |-> 0, body |-> NotJson,
      client |-> "waiting", chatTimecodes |-> {} ]

\* A handler that answers a non-2xx upstream status with an empty array.
TimecodesNotOkEmpty(c, status, body) ==
    [ c EXCEPT !.upResult = "response", !.upStatus = status, !.upBody = body,
               !.status = 200, !.body = JsonArray(<<>>), !.pc = "done" ]

\* if (!timecodesResponse.ok) return res.status(404).json({ error: ... })
TimecodesNotOk(c, status, body) ==
    [ c EXCEPT !.upResult = "response", !.upStatus = status, !.upBody = body,
               !.status = 404, !.body = JsonError("No chat data available"),
               !.pc = "done" ]

\* The catch block: fetch rejected, or the body of an ok response is not JSON.
TimecodesCatch(c, result, status, body) ==
    [ c EXCEPT !.upResult = result, !.upStatus = status, !.upBody = body,
               !.status = 500, !.body = JsonError("Failed to fetch chat timecodes"),
               !.pc = "done" ]

\* res.json(await timecodesResponse.json())
TimecodesOk(c, status, body) ==
    IF body = NotJson
    THEN TimecodesCatch(c, "response", status, body)
    ELSE [ c EXCEPT !.upResult = "response", !.upStatus = status, !.upBody = body,
                    !.status = 200, !.body = body, !.pc = "done" ]

\* The elements of an array, as new Set(data) holds them.
SetOf(items) == { items[i] : i \in 1..Len(items) }

\* loadChatTimecodes after its await of fetch('/api/chat/' + videoId): the
\* set is filled from an array of an ok response and is empty otherwise.
LoadChatTimecodes(c) ==
    [ c EXCEPT !.client = "loaded",
               !.chatTimecodes = IF Ok(c.status) /\ c.body.kind = "array"
                                 THEN SetOf(c.body.items)
                                 ELSE {} ]

\* loadChatTimecodes' catch block: the client's own fetch failed.
LoadChatTimecodesCatch(c) ==
    [ c EXCEPT !.client = "failed", !.chatTimecodes = {} ]

InitTimecodes ==
    /\ m3u8Content = <<>>
    /\ modifiedContent = <<>>
    /\ passes = 0
    /\ reqs = <<>>
    /\ HandlersIdle

TimecodesRequest ==
    /\ timecodes.pc = "idle"
    /\ timecodes' = TimecodesFetch

TimecodesUpstreamRespond ==
    /\ timecodes.pc = "fetching"
    /\ \E status \in UpstreamStatuses, body \in UpstreamBodies :
          timecodes' = IF Ok(status) THEN TimecodesOk(timecodes, status, body)
                       ELSE TimecodesNotOk(timecodes, status, body)

TimecodesUpstreamReject ==
    /\ timecodes.pc = "fetching"
    /\ timecodes' = TimecodesCatch(timecodes, "rejected", 0, NotJson)

ClientReceive ==
    /\ timecodes.pc = "done"
    /\ timecodes.client = "waiting"
    /\ timecodes' = LoadChatTimecodes(timecodes)

ClientReject ==
    /\ timecodes.pc # "idle"
    /\ timecodes.client = "waiting"
    /\ timecodes' = LoadChatTimecodesCatch(timecodes)

NextTimecodes ==
    \/ TimecodesRequest /\ UNCHANGED <<rewriteVars, reqs, storeVars, pageVars, video, chat, dur>>
    \/ TimecodesUpstreamRespond /\ UNCHANGED <<rewriteVars, reqs, storeVars, pageVars, video, chat, dur>>
    \/ TimecodesUpstreamReject /\ UNCHANGED <<rewriteVars, reqs, storeVars, pageVars, video, chat, dur>>
    \/ ClientReceive /\ UNCHANGED <<rewriteVars, reqs, storeVars, pageVars, video, chat, dur>>
    \/ ClientReject /\ UNCHANGED <<rewriteVars, reqs, storeVars, pageVars, video, chat, dur>>

SpecTimecodes == InitTimecodes /\ [][NextTimecodes]_vars

---------------------------------------------------------------------------
(* getVideoDuration *)

ExtinfPrefix == <<"#","E","X","T","I","N","F",":">>
Comma == ","
Dot == "."

\* The lines a manifest is made of.  kind and tenths say what the line is,
\* for the claims; the code sees text only.  Values are multiples of 0.5, so
\* that their sums in tenths are the sums JavaScript computes in doubles.
LineKinds ==
    << [ text |-> <<"#","E","X","T","M","3","U">>, kind |-> "other", tenths |-> 0 ],
       [ text |-> <<"s",".","t","s">>, kind |-> "other", tenths |-> 0 ],
       [ text |-> <<>>, kind |-> "other", tenths |-> 0 ],
       [ text |-> ExtinfPrefix \o <<"4",".","0",",">>, kind |-> "directive", tenths |-> 40 ],
       [ text |-> ExtinfPrefix \o <<"2",".","5",",">>, kind |-> "directive", tenths |-> 25 ],
       [ text |-> ExtinfPrefix \o <<"0",".","5",",">>, kind |-> "directive", tenths |-> 5 ],
       [ text |-> ExtinfPrefix \o <<"0",".","0",",">>, kind |-> "directive", tenths |-> 0 ],
       [ text |-> ExtinfPrefix \o <<"3",",","t","\r">>, kind |-> "directive", tenths |-> 30 ],
       [ text |-> ExtinfPrefix \o <<".",",">>, kind |-> "malformed", tenths |-> 0 ],
       [ text |-> ExtinfPrefix \o <<"x",",">>, kind |-> "malformed", tenths |-> 0 ],
       [ text |-> ExtinfPrefix \o <<"1",".","5",".","2",",">>, kind |-> "malformed", tenths |-> 0 ],
       [ text |-> ExtinfPrefix \o <<"4",".","0">>, kind |-> "malformed", tenths |-> 0 ] >>

ManifestLines == UNION { [1..n -> 1..Len(LineKinds)] : n \in 0..MaxLines }

\* The text of a manifest: its lines joined by "\n".
RECURSIVE JoinLines(_)
JoinLines(ls) ==
    IF ls = <<>> THEN <<>>
    ELSE IF Len(ls) = 1 THEN LineKinds[ls[1]].text
    ELSE LineKinds[ls[1]].text \o <<"\n">> \o JoinLines(Tail(ls))

\* m3u8Content.split('\n')
RECURSIVE SplitLines(_)
SplitLines(text) ==
    IF \A i \in 1..Len(text) : text[i] # "\n" THEN << text >>
    ELSE LET i == CHOOSE i \in 1..Len(text) :
                     text[i] = "\n" /\ \A j \in 1..(i - 1) : text[j] # "\n"
         IN  << SubSeq(text, 1, i - 1) >> \o SplitLines(SubSeq(text, i + 1, Len(text)))

\* The longest run of [0-9.] of a line from position i on.
RECURSIVE NumberRun(_, _)
NumberRun(line, i) ==
    IF i <= Len(line) /\ (IsDigit(line[i]) \/ line[i] = Dot)
    THEN << line[i] >> \o NumberRun(line, i + 1)
    ELSE <<>>

\* /#EXTINF:([0-9.]+),/ tried at position i of the line.
MatchesExtinfAt(line, i) ==
    /\ StartsWithAt(line, i, ExtinfPrefix)
    /\ LET run == NumberRun(line, i + Len(ExtinfPrefix))
       IN  /\ run # <<>>
           /\ i + Len(ExtinfPrefix) + Len(run) <= Len(line)
           /\ line[i + Len(ExtinfPrefix) + Len(run)] = Comma

\* line.match(/#EXTINF:([0-9.]+),/): the first position that matches, and
\* its group 1; matched is FALSE when match is null.
MatchExtinf(line) ==
    IF \E i \in 1..Len(line) : MatchesExtinfAt(line, i)
    THEN LET i == CHOOSE i \in 1..Len(line) :
                     /\ MatchesExtinfAt(line, i)
                     /\ \A j \in 1..(i - 1) : ~MatchesExtinfAt(line, j)
         IN  [ matched |-> TRUE, group |-> NumberRun(line, i + Len(ExtinfPrefix)) ]
    ELSE [ matched |-> FALSE, group |-> <<>> ]

\* Numbers: a value in tenths, or NaN.
Number(tenths) == [ nan |-> FALSE, tenths |-> tenths ]
NaN == [ nan |-> TRUE, tenths |-> 0 ]

\* parseFloat of a string of digits and dots: the longest prefix that is a
\* decimal literal (digits, then optionally a dot and digits), NaN when that
\* prefix has no digit.  Kept to tenths: the first digit after the dot.
ParseFloat(str) ==
    LET int == DigitRun(str, 1)
        frac == IF Len(int) < Len(str) /\ str[Len(int) + 1] = Dot
                THEN DigitRun(str, Len(int) + 2)
                ELSE <<>>
    IN  IF int = <<>> /\ frac = <<>> THEN NaN
        ELSE Number(10 * DigitsValue(int)
                      + (IF frac = <<>> THEN 0 ELSE DigitValue(frac[1])))

\* totalDuration += duration
Plus(a, b) == IF a.nan \/ b.nan THEN NaN ELSE Number(a.tenths + b.tenths)

\* Rounding that drops the fraction.
MathFloor(x) == IF x.nan THEN NaN ELSE Number(10 * (x.tenths \div 10))

\* Math.round: to the nearest integer, a half goes up.
MathRound(x) == IF x.nan THEN NaN ELSE Number(10 * ((x.tenths + 5) \div 10))

\* The loop body: a line that starts with #EXTINF: and matches the pattern
\* adds its parsed value to the total.
AddLine(total, line) ==
    IF StartsWithAt(line, 1, ExtinfPrefix) /\ MatchExtinf(line).matched
    THEN Plus(total, ParseFloat(MatchExtinf(line).group))
    ELSE total

\* for (const line of lines), from totalDuration = 0
RECURSIVE TotalDuration(_)
TotalDuration(lines) ==
    IF lines = <<>> THEN Number(0)
    ELSE AddLine(TotalDuration(SubSeq(lines, 1, Len(lines) - 1)), lines[Len(lines)])

\* What getVideoDuration returns: null, or a number (NaN included).
Null == [ isNull |-> TRUE, number |-> Number(0) ]
Returned(x) == [ isNull |-> FALSE, number |-> x ]

\* The function up to its await of fetch.
DurationFetch(ls) ==
    [ pc |-> "fetching", lines |-> ls, upResult |-> "none", upStatus |-> 0,
      text |-> <<>>, result |-> Null ]

\* if (!m3u8Response.ok) return null
DurationNotOk(d, status) ==
    [ d EXCEPT !.upResult = "response", !.upStatus = status,
               !.result = Null, !.pc = "done" ]

\* The body after text(): split, sum, round, return.
DurationOk(d, status, text) ==
    [ d EXCEPT !.upResult = "response", !.upStatus = status, !.text = text,
               !.result = Returned(MathRound(TotalDuration(SplitLines(text)))),
               !.pc = "done" ]

\* The catch block: return null
DurationCatch(d) ==
    [ d EXCEPT !.upResult = "rejected", !.result = Null, !.pc = "done" ]

InitDuration ==
    /\ m3u8Content = <<>>
    /\ modifiedContent = <<>>
    /\ passes = 0
    /\ reqs = <<>>
    /\ HandlersIdle

\* getVideoDuration(videoId) is called; ls is the manifest upstream holds.
DurationRequest ==
    /\ dur.pc = "idle"
    /\ \E ls \in ManifestLines : dur' = DurationFetch(ls)

DurationUpstreamRespond ==
    /\ dur.pc = "fetching"
    /\ \E status \in UpstreamStatuses :
          dur' = IF Ok(status) THEN DurationOk(dur, status, JoinLines(dur.lines))
                 ELSE DurationNotOk(dur, status)

DurationUpstreamReject ==
    /\ dur.pc = "fetching"
    /\ dur' = DurationCatch(dur)

NextDuration ==
    \/ DurationRequest /\ UNCHANGED <<rewriteVars, reqs, storeVars, pageVars, video, timecodes, chat>>
    \/ DurationUpstreamRespond /\ UNCHANGED <<rewriteVars, reqs, storeVars, pageVars, video, timecodes, chat>>
    \/ DurationUpstreamReject /\ UNCHANGED <<rewriteVars, reqs, storeVars, pageVars, video, timecodes, chat>>

SpecDuration == InitDuration /\ [][NextDuration]_vars

---------------------------------------------------------------------------
(* The metadata store: loadMetadata, saveMetadata, syncMetadata, startup,
   GET /api/sync and GET /api/videos *)

\* Tables are functions from index keys to records.
EmptyTable == [ k \in {} |-> 0 ]

Put(table, k, record) ==
    [ x \in DOMAIN table \cup {k} |-> IF x = k THEN record ELSE table[x] ]

\* The key of a JSON error body, { "error": "..." }.
ErrorKey == 0

\* What getVideoDuration returns to the reconciliation (a number here; the
\* records an earlier run left have none).
DurationResults == { Returned(Number(110)) }

\* The record syncMetadata builds for index key k (vodid is the key: the
\* entries of the model carry no vodid of their own); id stands for the time
\* of new Date(): the number of the reconciliation, 0 for an earlier run of
\* the server.  titled is FALSE when videoData has no title (it is a string).
NewRecord(k, titled, duration, id) ==
    [ vodid |-> k, titled |-> titled, duration |-> duration, lastUpdated |-> id ]

\* The length of JSON.stringify(metadata, null, 2): "{}" for the empty
\* table; otherwise one property per record, each on lines of its own, a
\* comma and a line break between two of them.  A key of the index is one
\* digit, the key of an error body is the word error, and vodid is the key;
\* title, description and date, which a record has when videoData is an
\* entry of the index, take 74 characters in all (18 of them text); a
\* duration is written as null when it is null or NaN, and otherwise with
\* the digits of the number (11 for 110 tenths, 2.5 for 25); toISOString()
\* gives 24 characters.
Stringify(table) ==
    LET RECURSIVE DigitCount(_)
        DigitCount(n) == IF n < 10 THEN 1 ELSE 1 + DigitCount(n \div 10)
        NumberBytes(x) ==
            IF x.nan THEN 4
            ELSE DigitCount(x.tenths \div 10) + (IF x.tenths % 10 = 0 THEN 0 ELSE 2)
        RecordBytes(r) ==
            LET key == IF r.vodid = ErrorKey THEN 5 ELSE 1
                entry == IF r.titled THEN 74 ELSE 0
                duration == IF r.duration.isNull THEN 4 ELSE NumberBytes(r.duration.number)
            IN  (key + 8) + (key + 17) + entry + (duration + 18) + 46 + 3
        RECURSIVE Sum(_)
        Sum(keys) ==
            IF keys = {} THEN 0
            ELSE LET k == CHOOSE k \in keys : TRUE
                 IN  RecordBytes(table[k]) + Sum(keys \ {k})
    IN  IF DOMAIN table = {} THEN 2
        ELSE 2 + Sum(DOMAIN table) + 2 * (Cardinality(DOMAIN table) - 1) + 2

\* The store file: missing, not parseable, opened for writing with nothing
\* written yet, or holding a complete table; bytes is its length (the file
\* an earlier run left unparseable is taken to be an empty one).
FileMissing == [ state |-> "missing", table |-> EmptyTable, bytes |-> 0 ]
FileCorrupt == [ state |-> "corrupt", table |-> EmptyTable, bytes |-> 0 ]
FileTruncated == [ state |-> "truncated", table |-> EmptyTable, bytes |-> 0 ]
FileOf(table) == [ state |-> "table", table |-> table, bytes |-> Stringify(table) ]

\* fs.writeFile writes its data from the start of the file it opened.  What
\* another writer has put there since is replaced up to the length of the
\* data: a longer text keeps its end, and a table followed by the end of
\* another text does not parse.
WriteFile(file, table) ==
    IF file.bytes <= Stringify(table) THEN FileOf(table)
    ELSE [ state |-> "corrupt", table |-> EmptyTable, bytes |-> file.bytes ]

\* The files an earlier run of the server can have left.
InitialFiles ==
    { FileMissing, FileCorrupt,
      FileOf([ k \in 1..(MaxKeys - 1) |-> NewRecord(k, TRUE, Null, 0) ]) }

\* loadMetadata: the parsed file, {} when reading or parsing throws.
LoadMetadata(file) == IF file.state = "table" THEN file.table ELSE EmptyTable

\* The responses the fetch of videos.json can resolve with: 200 with an index
\* (an object with one entry per key; the videos are numbered from 1 as they
\* are added, so an index is its first n entries), a status that is not ok
\* with a JSON error object, either status with text that is not JSON.
IndexResponses ==
    { [ status |-> 200, kind |-> "index", keys |-> 1..n ] : n \in 0..MaxKeys }
    \cup { [ status |-> 404, kind |-> "error", keys |-> {ErrorKey} ],
           [ status |-> 404, kind |-> "invalid", keys |-> {} ],
           [ status |-> 200, kind |-> "invalid", keys |-> {} ] }

\* syncMetadata up to its first await.
SyncStarted(id) ==
    [ id |-> id,                \* the time it started, for new Date()
      pc |-> "load",            \* load, index, duration, save, write, written,
                                \* reload, done
      local |-> EmptyTable,     \* localMetadata
      status |-> 0,             \* response.status of the index fetch
      body |-> "none",          \* the kind of body of the index response
      todo |-> {},              \* entries of remoteVideos not yet looked at
      key |-> ErrorKey,         \* the key whose duration is awaited
      updated |-> FALSE,
      found |-> FALSE,          \* the index had a key the loaded table had not
      wrote |-> FALSE,          \* saveMetadata was called
      event |-> "none" ]        \* what its last step did: none, call, written,
                                \* returned, recovered (returned by the catch)

Min(S) == CHOOSE k \in S : \A j \in S : k <= j

\* syncMetadata returns.
SyncReturned(x) == [ x EXCEPT !.pc = "done", !.todo = {}, !.event = "returned" ]

\* getVideoDuration(actualVodId) is called and awaited.
SyncCall(x, k, rest) ==
    [ x EXCEPT !.pc = "duration", !.key = k, !.todo = rest, !.event = "call" ]

\* What calls syncMetadata: startup(), the callback of setInterval, and the
\* handler of GET /api/sync.
Triggers == { "startup", "timer", "manual" }

\* A trigger that has not fired, and one whose reconciliation is over, its
\* locals gone.
SyncIdle == [ SyncStarted(0) EXCEPT !.pc = "idle" ]
SyncOver == [ SyncStarted(0) EXCEPT !.pc = "done" ]

\* The step of the reconciliation of trigger i is taken: what the last step
\* of any other had to show is no longer shown, and one that had returned is
\* over.
Settle(syncs, i) ==
    [ j \in Triggers |->
        IF j = i THEN syncs[j]
        ELSE IF syncs[j].pc = "done" THEN SyncOver
        ELSE [ syncs[j] EXCEPT !.event = "none" ] ]

\* A reconciliation that saves whether or not it found a new entry.
SyncLoopAlwaysSaves(x) ==
    LET new == { k \in x.todo : k \notin DOMAIN x.local }
    IN  IF new = {}
        THEN [ x EXCEPT !.pc = "save", !.todo = {}, !.event = "none" ]
        ELSE SyncCall(x, Min(new), new \ { Min(new) })

\* The for loop from its head: entries already in localMetadata are passed
\* over; at the first new one getVideoDuration is awaited; after the last
\* one the table is saved when updated is set.
SyncLoop(x) ==
    LET new == { k \in x.todo : k \notin DOMAIN x.local }
    IN  IF new = {}
        THEN IF x.updated THEN [ x EXCEPT !.pc = "save", !.todo = {}, !.event = "none" ]
             ELSE SyncReturned(x)
        ELSE SyncCall(x, Min(new), new \ { Min(new) })

\* The catch block: return await loadMetadata().  The locals of the try
\* block are out of scope.
SyncCatch(x, status, kind) ==
    [ x EXCEPT !.status = status, !.body = kind, !.pc = "reload", !.event = "none",
               !.local = EmptyTable, !.todo = {}, !.key = ErrorKey ]

\* The index fetch resolved: response.json(), then the loop.  The status of
\* the response is not looked at.
SyncIndex(x, r) ==
    IF r.kind = "invalid" THEN SyncCatch(x, r.status, r.kind)
    ELSE SyncLoop([ x EXCEPT !.status = r.status, !.body = r.kind, !.todo = r.keys ])

\* getVideoDuration returned: the record is put into localMetadata, updated
\* is set, and the loop goes on.
SyncRecord(x, duration) ==
    SyncLoop([ x EXCEPT
        !.local = Put(x.local, x.key,
                      NewRecord(x.key, x.body = "index", duration, x.id)),
        !.updated = TRUE ])

\* A handler of GET /api/videos without the catch of loadMetadata: 500 when
\* the file cannot be read or parsed.
VideosResponseNoCatch(file) ==
    IF file.state = "table"
    THEN [ status |-> 200, seen |-> file.table ]
    ELSE [ status |-> 500, seen |-> EmptyTable ]

\* GET /api/videos: 200 with Object.values(await loadMetadata()).
VideosResponse(file) == [ status |-> 200, seen |-> LoadMetadata(file) ]

\* No read of the file was made by the last step.
NoRead == [ reader |-> "none" ]

\* The state of the store before startup() runs.
MetaStart(file) ==
    [ file |-> file,
      durable |-> LoadMetadata(file),   \* the last complete table of the file
      syncs |-> [ i \in Triggers |-> SyncIdle ],  \* the reconciliations
      started |-> 0,                    \* how many were started
      boot |-> "start",                 \* startup(): start, sync, emotes, listening
      armed |-> FALSE,                  \* setInterval was called
      read |-> NoRead ]                 \* the read GET /api/videos made in the
                                        \* last step, if it made one

InitSync ==
    /\ m3u8Content = <<>>
    /\ modifiedContent = <<>>
    /\ passes = 0
    /\ reqs = <<>>
    /\ video = Idle /\ timecodes = Idle /\ chat = Idle /\ dur = Idle
    /\ emote = Idle
    /\ mappings = Idle /\ player = Idle /\ pager = Idle /\ grid = Idle /\ pane = Idle
    /\ \E file \in InitialFiles : meta = MetaStart(file)

\* The tables of the writes in progress.
BeingWritten ==
    { meta.syncs[j].local : j \in { j \in Triggers : meta.syncs[j].pc = "write" } }

\* syncMetadata is called by trigger i.
StartSync(i) ==
    [ meta EXCEPT
        !.syncs = Settle([ meta.syncs EXCEPT ![i] = SyncStarted(meta.started + 1) ], i),
        !.started = meta.started + 1,
        !.read = NoRead ]

\* startup() calls syncMetadata before anything else.
StartupSync ==
    /\ meta.boot = "start"
    /\ meta' = [ StartSync("startup") EXCEPT !.boot = "sync" ]

\* startup's reconciliation has returned: loadEmoteMappings is called.
StartupEmotes ==
    /\ meta.boot = "sync"
    /\ meta.syncs["startup"].pc = "done"
    /\ meta' = [ meta EXCEPT !.boot = "emotes",
                             !.syncs = Settle(meta.syncs, "boot"),
                             !.read = NoRead ]

\* loadEmoteMappings has returned: setInterval, then app.listen.
StartupListen ==
    /\ meta.boot = "emotes"
    /\ meta' = [ meta EXCEPT !.boot = "listening", !.armed = TRUE,
                             !.syncs = Settle(meta.syncs, "boot"),
                             !.read = NoRead ]

\* A server that listens from the moment it is started.
ListeningFromStart == TRUE

\* app.listen was called: requests are served.
Listening == meta.boot = "listening"

\* A tick of setInterval calls syncMetadata.
TimerTick ==
    /\ meta.armed
    /\ meta.syncs["timer"].pc \in { "idle", "done" }
    /\ meta.started < MaxSyncs
    /\ meta' = StartSync("timer")

\* GET /api/sync calls syncMetadata.
ManualSync ==
    /\ Listening
    /\ meta.syncs["manual"].pc \in { "idle", "done" }
    /\ meta.started < MaxSyncs
    /\ meta' = StartSync("manual")

\* await loadMetadata() at the start of a reconciliation.
SyncLoad(i) ==
    /\ meta.syncs[i].pc = "load"
    /\ meta' = [ meta EXCEPT
          !.syncs = Settle([ meta.syncs EXCEPT
                               ![i].local = LoadMetadata(meta.file),
                               ![i].pc = "index" ], i),
          !.read = NoRead ]

\* The fetch of videos.json resolves.
SyncIndexRespond(i) ==
    /\ meta.syncs[i].pc = "index"
    /\ \E r \in IndexResponses :
          meta' = [ meta EXCEPT
              !.syncs = Settle([ meta.syncs EXCEPT ![i] =
                  [ SyncIndex(meta.syncs[i], r) EXCEPT
                      !.found = \E k \in r.keys : k \notin DOMAIN meta.syncs[i].local ] ],
                  i),
              !.read = NoRead ]

\* The fetch of videos.json rejects.
SyncIndexReject(i) ==
    /\ meta.syncs[i].pc = "index"
    /\ meta' = [ meta EXCEPT
          !.syncs = Settle([ meta.syncs EXCEPT
                               ![i] = SyncCatch(meta.syncs[i], 0, "rejected") ], i),
          !.read = NoRead ]

\* getVideoDuration returns.
SyncDurationReturn(i) ==
    /\ meta.syncs[i].pc = "duration"
    /\ \E duration \in DurationResults :
          meta' = [ meta EXCEPT
              !.syncs = Settle([ meta.syncs EXCEPT
                                   ![i] = SyncRecord(meta.syncs[i], duration) ], i),
              !.read = NoRead ]

\* saveMetadata: fs.writeFile opens the file, which truncates it ...
SyncWriteOpen(i) ==
    /\ meta.syncs[i].pc = "save"
    /\ meta' = [ meta EXCEPT
          !.file = FileTruncated,
          !.syncs = Settle([ meta.syncs EXCEPT ![i].pc = "write",
                                               ![i].wrote = TRUE ], i),
          !.read = NoRead ]

\* ... and then writes the whole table over what the file holds by then.
\* The reconciliation still awaits the promise of saveMetadata.
SyncWriteData(i) ==
    /\ meta.syncs[i].pc = "write"
    /\ meta' = [ meta EXCEPT
          !.file = WriteFile(meta.file, meta.syncs[i].local),
          !.durable = LET file == WriteFile(meta.file, meta.syncs[i].local)
                      IN  IF file.state = "table" THEN file.table ELSE meta.durable,
          !.syncs = Settle([ meta.syncs EXCEPT ![i].pc = "written",
                                               ![i].event = "written" ], i),
          !.read = NoRead ]

\* The promise of saveMetadata resolves, in a later turn of the event loop:
\* the reconciliation logs and returns localMetadata, whatever the other
\* reconciliations have done to the file since.
SyncSaveResolve(i) ==
    /\ meta.syncs[i].pc = "written"
    /\ meta' = [ meta EXCEPT
          !.syncs = Settle([ meta.syncs EXCEPT
                               ![i] = SyncReturned(meta.syncs[i]) ], i),
          !.read = NoRead ]

\* fs.writeFile rejects: before it has opened the file, or after it has and
\* before it has written (the file is left as the open, or another writer
\* since, has made it).  The catch block of syncMetadata runs.
SyncSaveReject(i) ==
    /\ meta.syncs[i].pc \in { "save", "write" }
    /\ meta' = [ meta EXCEPT
          !.syncs = Settle([ meta.syncs EXCEPT
                               ![i] = [ SyncCatch(meta.syncs[i], meta.syncs[i].status,
                                                  meta.syncs[i].body)
                                          EXCEPT !.wrote = TRUE ] ], i),
          !.read = NoRead ]

\* return await loadMetadata() of the catch block.
SyncReload(i) ==
    /\ meta.syncs[i].pc = "reload"
    /\ meta' = [ meta EXCEPT
          !.syncs = Settle([ meta.syncs EXCEPT
                               ![i] = [ SyncReturned(meta.syncs[i]) EXCEPT
                                          !.local = LoadMetadata(meta.file),
                                          !.event = "recovered" ] ], i),
          !.read = NoRead ]

\* GET /api/videos is handled.  The read is kept with what it could have seen: the table of before the
\* write in progress and the tables being written.
VideosRequest ==
    /\ Listening
    /\ meta' = [ meta EXCEPT
          !.syncs = Settle(meta.syncs, "videos"),
          !.read = [ reader |-> "videos",
                     file |-> meta.file.state,
                     status |-> VideosResponse(meta.file).status,
                     seen |-> VideosResponse(meta.file).seen,
                     old |-> meta.durable,
                     new |-> BeingWritten ] ]

NextSync ==
    \/ StartupSync /\ UNCHANGED <<rewriteVars, reqs, handlerVars, emote, pageVars>>
    \/ StartupEmotes /\ UNCHANGED <<rewriteVars, reqs, handlerVars, emote, pageVars>>
    \/ StartupListen /\ UNCHANGED <<rewriteVars, reqs, handlerVars, emote, pageVars>>
    \/ TimerTick /\ UNCHANGED <<rewriteVars, reqs, handlerVars, emote, pageVars>>
    \/ ManualSync /\ UNCHANGED <<rewriteVars, reqs, handlerVars, emote, pageVars>>
    \/ \E i \in Triggers :
          SyncLoad(i) /\ UNCHANGED <<rewriteVars, reqs, handlerVars, emote, pageVars>>
    \/ \E i \in Triggers :
          SyncIndexRespond(i) /\ UNCHANGED <<rewriteVars, reqs, handlerVars, emote, pageVars>>
    \/ \E i \in Triggers :
          SyncIndexReject(i) /\ UNCHANGED <<rewriteVars, reqs, handlerVars, emote, pageVars>>
    \/ \E i \in Triggers :
          SyncDurationReturn(i) /\ UNCHANGED <<rewriteVars, reqs, handlerVars, emote, pageVars>>
    \/ \E i \in Triggers :
          SyncWriteOpen(i) /\ UNCHANGED <<rewriteVars, reqs, handlerVars, emote, pageVars>>
    \/ \E i \in Triggers :
          SyncWriteData(i) /\ UNCHANGED <<rewriteVars, reqs, handlerVars, emote, pageVars>>
    \/ \E i \in Triggers :
          SyncSaveResolve(i) /\ UNCHANGED <<rewriteVars, reqs, handlerVars, emote, pageVars>>
    \/ \E i \in Triggers :
          SyncSaveReject(i) /\ UNCHANGED <<rewriteVars, reqs, handlerVars, emote, pageVars>>
    \/ \E i \in Triggers :
          SyncReload(i) /\ UNCHANGED <<rewriteVars, reqs, handlerVars, emote, pageVars>>
    \/ VideosRequest /\ UNCHANGED <<rewriteVars, reqs, handlerVars, emote, pageVars>>

SpecSync == InitSync /\ [][NextSync]_vars

---------------------------------------------------------------------------
(* The emote routes: the wildcard route GET /api/emote/:path and           *)
(* GET /api/emote/lookup/:emoteName, in the order they are registered      *)

EmotesBase ==
    <<"h","t","t","p","s",":","/","/","b","a","r","b","a","r","i","a","n",".","m","e","n","/","m","a","c","a","w","4","5","/","e","m","o","t","e","s","/">>

EmotePrefix == <<"/","a","p","i","/","e","m","o","t","e","/">>
LookupPrefix == <<"l","o","o","k","u","p","/">>
ThirdPartyDir == <<"t","h","i","r","d","P","a","r","t","y","/">>
FirstPartyDir == <<"f","i","r","s","t","P","a","r","t","y","/">>

ImagePng == <<"image/png">>

\* thirdPartyEmotes and firstPartyEmotes as loadEmoteMappings left them:
\* name -> id, or the empty objects they start as when the load failed.
EmoteTables ==
    { [ thirdParty |-> ( <<"K">> :> <<"7">> ) @@ ( <<"B">> :> <<"8">> ),
        firstParty |-> ( <<"P">> :> <<"3">> ) @@ ( <<"B">> :> <<"4">> ) ],
      [ thirdParty |-> [ n \in {} |-> <<>> ],
        firstParty |-> ( <<"P">> :> <<"3">> ) ],
      [ thirdParty |-> [ n \in {} |-> <<>> ],
        firstParty |-> [ n \in {} |-> <<>> ] ] }

\* The paths clients request: emotes and badges by id (as the chat renderer
\* builds them), emotes by name, and a path of no emote route.
EmotePaths ==
    { EmotePrefix \o ThirdPartyDir \o <<"7">>,
      EmotePrefix \o FirstPartyDir \o <<"3">>,
      EmotePrefix \o LookupPrefix \o <<"K">>,
      EmotePrefix \o LookupPrefix \o <<"P">>,
      EmotePrefix \o LookupPrefix \o <<"B">>,
      EmotePrefix \o LookupPrefix \o <<"Z">>,
      <<"/","a","p","i","/","e","m","o","t","e","s">> }

\* The wildcard route /api/emote/:path of Express 4, whose parameter is
\* written with a star in parentheses and so takes any characters: every
\* path under /api/emote/ matches, slashes included.
EmoteProxyMatches(path) == StartsWithAt(path, 1, EmotePrefix)

\* req.params.path: the whole of the path after /api/emote/.
EmoteProxyParam(path) == SubSeq(path, Len(EmotePrefix) + 1, Len(path))

\* The route /api/emote/lookup/:emoteName,
\* /^\/api\/emote\/lookup\/(?:([^\/]+?))\/?$/ : the value of :emoteName when
\* the path matches, <<>> when it does not.
EmoteLookupParam(path) ==
    IF ~StartsWithAt(path, 1, EmotePrefix \o LookupPrefix) THEN <<>>
    ELSE LET rest == SubSeq(path, Len(EmotePrefix \o LookupPrefix) + 1, Len(path))
             name == IF Len(rest) > 1 /\ rest[Len(rest)] = "/"
                     THEN SubSeq(rest, 1, Len(rest) - 1) ELSE rest
         IN  IF name # <<>> /\ ~HasSlash(name) THEN name ELSE <<>>

EmoteRequested(url, tables) ==
    [ pc |-> "sent",               \* sent, fetching, streaming, done
      url |-> url,                 \* req.path
      thirdParty |-> tables.thirdParty,
      firstParty |-> tables.firstParty,
      route |-> "none",            \* the handler the router chose
      table |-> "none",            \* the table the lookup handler is using
      fetched |-> <<>>,            \* the upstream URLs fetched, in order
      status |-> 0,                \* the status sent to the client
      text |-> "",                 \* the text sent with an error status
      contentType |-> NoHeader,
      piped |-> <<>> ]             \* the upstream URL whose body is piped

EmoteNotFound(r) ==
    [ r EXCEPT !.status = 404, !.text = "Emote not found", !.pc = "done" ]

\* The proxy handler up to its await: fetch of emotes/${emotePath}.
EmoteProxyFetch(r) ==
    [ r EXCEPT !.route = "proxy",
               !.fetched = << EmotesBase \o EmoteProxyParam(r.url) >>,
               !.pc = "fetching" ]

\* Content-Type when upstream sent one, Cache-Control, and the body piped;
\* res.status is not called: 200.
EmotePipe(r, contentType) ==
    [ r EXCEPT !.status = 200,
               !.contentType = IF Truthy(contentType) THEN contentType ELSE NoHeader,
               !.piped = r.fetched[Len(r.fetched)],
               !.pc = "streaming" ]

\* The proxy handler after its await.
EmoteProxyResponse(r, ok, contentType) ==
    IF ok THEN EmotePipe(r, contentType) ELSE EmoteNotFound(r)

\* The lookup handler at `if (firstPartyEmotes[emoteName])`.
EmoteLookupFirstParty(r) ==
    LET name == EmoteLookupParam(r.url)
    IN  IF name \in DOMAIN r.firstParty /\ r.firstParty[name] # <<>>
        THEN [ r EXCEPT !.table = "firstParty",
                        !.fetched = Append(r.fetched,
                            EmotesBase \o FirstPartyDir \o r.firstParty[name]),
                        !.pc = "fetching" ]
        ELSE EmoteNotFound(r)

\* The lookup handler from its start: the third-party table first.
EmoteLookupStart(r) ==
    LET name == EmoteLookupParam(r.url)
        x == [ r EXCEPT !.route = "lookup" ]
    IN  IF name \in DOMAIN r.thirdParty /\ r.thirdParty[name] # <<>>
        THEN [ x EXCEPT !.table = "thirdParty",
                        !.fetched = << EmotesBase \o ThirdPartyDir \o r.thirdParty[name] >>,
                        !.pc = "fetching" ]
        ELSE EmoteLookupFirstParty(x)

\* The lookup handler after an await: an ok response is piped; after a
\* response that is not ok the next table is tried, or 404 is sent.
EmoteLookupResponse(r, ok, contentType) ==
    IF ok THEN EmotePipe(r, contentType)
    ELSE IF r.table = "thirdParty" THEN EmoteLookupFirstParty(r)
    ELSE EmoteNotFound(r)

\* The catch block of either handler.
EmoteCatch(r) ==
    [ r EXCEPT !.status = 500, !.text = "Error fetching emote", !.pc = "done" ]

\* The router: the routes are tried in the order of their app.get calls,
\* and the first whose pattern matches handles the request (neither emote
\* handler calls next()).
EmoteRoute(r) ==
    IF EmoteProxyMatches(r.url) THEN EmoteProxyFetch(r)
    ELSE IF EmoteLookupParam(r.url) # <<>> THEN EmoteLookupStart(r)
    ELSE Fallback(r)

InitEmote ==
    /\ m3u8Content = <<>>
    /\ modifiedContent = <<>>
    /\ passes = 0
    /\ reqs = <<>>
    /\ HandlersIdle

EmoteRequest ==
    /\ emote.pc = "idle"
    /\ \E url \in EmotePaths, tables \in EmoteTables :
          emote' = EmoteRequested(url, tables)

EmoteDispatch ==
    /\ emote.pc = "sent"
    /\ emote' = EmoteRoute(emote)

\* Upstream answers the fetch the handler is waiting for.
EmoteUpstreamRespond ==
    /\ emote.pc = "fetching"
    /\ \E status \in UpstreamStatuses, contentType \in { NoHeader, ImagePng } :
          emote' = IF emote.route = "proxy"
                   THEN EmoteProxyResponse(emote, Ok(status), contentType)
                   ELSE EmoteLookupResponse(emote, Ok(status), contentType)

EmoteUpstreamReject ==
    /\ emote.pc = "fetching"
    /\ emote' = EmoteCatch(emote)

EmoteStreamEnd ==
    /\ emote.pc = "streaming"
    /\ emote' = [emote EXCEPT !.pc = "done"]

NextEmote ==
    \/ EmoteRequest /\ UNCHANGED <<rewriteVars, reqs, handlerVars, meta, pageVars>>
    \/ EmoteDispatch /\ UNCHANGED <<rewriteVars, reqs, handlerVars, meta, pageVars>>
    \/ EmoteUpstreamRespond /\ UNCHANGED <<rewriteVars, reqs, handlerVars, meta, pageVars>>
    \/ EmoteUpstreamReject /\ UNCHANGED <<rewriteVars, reqs, handlerVars, meta, pageVars>>
    \/ EmoteStreamEnd /\ UNCHANGED <<rewriteVars, reqs, handlerVars, meta, pageVars>>

SpecEmote == InitEmote /\ [][NextEmote]_vars

---------------------------------------------------------------------------
(* The emote mappings of the server: loadEmoteMappings *)

\* The refreshes one run of the server makes: the one of startup(), then
\* those of the timer and of GET /api/sync, which may overlap.
MaxLoads == 3

MappingNames == { "firstParty", "thirdParty", "cheers" }

\* The order in which loadEmoteMappings goes through the three responses.
MappingOrder == << "firstParty", "thirdParty", "cheers" >>

\* A mapping is the empty object the server starts with, or the body of the
\* response of refresh n: 0 and n.
EmptyMapping == 0

\* What upstream answers a mapping fetch with: a 2xx status and a JSON
\* object, a 2xx status and a body that is not JSON, another status.
MappingResponses == { "ok", "invalid", "notok" }

AllOk == [ t \in MappingNames |-> "ok" ]

\* The answers one refresh gets: at most one of the three is not a 2xx
\* status with a JSON object.
RefreshResponses ==
    { rs \in [ MappingNames -> MappingResponses ] :
        \A t, u \in MappingNames : ( rs[t] # "ok" /\ rs[u] # "ok" ) => t = u }

\* A refresh that takes the empty object for a mapping whose response.json()
\* does not give an object.
AssignIfOkElseEmpty(old, response, body) ==
    IF response = "ok" THEN body ELSE EmptyMapping

\* mapping = await response.json(), once the promise has settled: the body
\* when it resolved, no assignment when it threw.
AssignIfOk(old, response, body) ==
    IF response = "ok" THEN body ELSE old

\* await response.json() throws on a 2xx response whose body is not JSON.
Throws(response) == response = "invalid"

\* The next `if (response.ok)` that holds from place i of the order on: the
\* mapping whose response.json() is awaited next, "done" when there is
\* none and loadEmoteMappings returns.
RECURSIVE LoadEmoteMappings(_, _)
LoadEmoteMappings(rs, i) ==
    IF i > Len(MappingOrder) THEN "done"
    ELSE IF rs[MappingOrder[i]] # "notok" THEN MappingOrder[i]
    ELSE LoadEmoteMappings(rs, i + 1)

PlaceOf(t) == CHOOSE i \in 1..Len(MappingOrder) : MappingOrder[i] = t

\* A call that awaits the response.json() of the mapping t: of its
\* responses only those from t on are still read.
Awaiting(rs, t) ==
    [ pc |-> t,
      rs |-> [ u \in MappingNames |-> IF PlaceOf(u) < PlaceOf(t) THEN "ok" ELSE rs[u] ] ]

\* A call of loadEmoteMappings that has not been made, and one that has
\* returned.
NoLoad == [ pc |-> "none", rs |-> AllOk ]
LoadOver == [ pc |-> "done", rs |-> AllOk ]

\* What the last step did, when a response.json() settled in it: the
\* refresh, the mapping, its response, and whether the mapping has changed.
NoStep == [ n |-> 0, t |-> "none", response |-> "none", changed |-> FALSE ]

InitMappings ==
    /\ m3u8Content = <<>>
    /\ modifiedContent = <<>>
    /\ passes = 0
    /\ reqs = <<>>
    /\ video = Idle /\ timecodes = Idle /\ chat = Idle /\ dur = Idle
    /\ meta = Idle /\ emote = Idle
    /\ player = Idle /\ pager = Idle /\ grid = Idle /\ pane = Idle
    /\ mappings = [ loads |-> 0,         \* the refreshes made
                    now |-> [ t \in MappingNames |-> EmptyMapping ],
                    calls |-> [ n \in 1..MaxLoads |-> NoLoad ],
                    step |-> NoStep ]

\* loadEmoteMappings is called: the three fetches are made.  The call of
\* startup() is awaited before the timer is set and the server listens, so
\* no other call is made before it has returned.
MappingsLoad ==
    /\ mappings.loads < MaxLoads
    /\ mappings.loads >= 1 => mappings.calls[1].pc = "done"
    /\ mappings' = [ mappings EXCEPT
          !.loads = mappings.loads + 1,
          !.calls[mappings.loads + 1] = [ pc |-> "fetching", rs |-> AllOk ],
          !.step = NoStep ]

\* The three fetches of a call resolve: Promise.all resolves, and the call
\* goes on to its first await of a response.json().
MappingsRespond ==
    \E n \in 1..MaxLoads : \E rs \in RefreshResponses :
        /\ mappings.calls[n].pc = "fetching"
        /\ mappings' = [ mappings EXCEPT
              !.calls[n] = IF LoadEmoteMappings(rs, 1) = "done" THEN LoadOver
                           ELSE Awaiting(rs, LoadEmoteMappings(rs, 1)),
              !.step = NoStep ]

\* The response.json() a call awaits settles: the mapping is assigned when
\* it resolved and the call goes on to the next response; when it threw the
\* catch block logs and the call returns.
MappingsJson ==
    \E n \in 1..MaxLoads :
        LET c == mappings.calls[n]
            t == c.pc
            value == AssignIfOk(mappings.now[t], c.rs[t], n)
            next == IF Throws(c.rs[t]) THEN "done"
                    ELSE LoadEmoteMappings(c.rs, PlaceOf(t) + 1)
        IN  /\ c.pc \in MappingNames
            /\ mappings' = [ mappings EXCEPT
                  !.now[t] = value,
                  !.calls[n] = IF next = "done" THEN LoadOver
                               ELSE Awaiting(c.rs, next),
                  !.step = [ n |-> n, t |-> t, response |-> c.rs[t],
                             changed |-> value # mappings.now[t] ] ]

\* One of the fetches rejects: Promise.all rejects, the catch block logs.
MappingsReject ==
    \E n \in 1..MaxLoads :
        /\ mappings.calls[n].pc = "fetching"
        /\ mappings' = [ mappings EXCEPT
              !.calls[n] = LoadOver,
              !.step = NoStep ]

NextMappings ==
    \/ MappingsLoad /\ UNCHANGED <<rewriteVars, reqs, handlerVars, storeVars, player, pager, grid, pane>>
    \/ MappingsReject /\ UNCHANGED <<rewriteVars, reqs, handlerVars, storeVars, player, pager, grid, pane>>
    \/ MappingsRespond /\ UNCHANGED <<rewriteVars, reqs, handlerVars, storeVars, player, pager, grid, pane>>
    \/ MappingsJson /\ UNCHANGED <<rewriteVars, reqs, handlerVars, storeVars, player, pager, grid, pane>>

SpecMappings == InitMappings /\ [][NextMappings]_vars

---------------------------------------------------------------------------
(* The page's list of videos: filterVideos, the handlers of                *)
(* setupEventListeners, updatePagination, renderVideos, buildVideoGrid and *)
(* updateVideoGrid                                                         *)

\* The videos of the archive are 1..MaxVideos; video i has date i, and
\* this.videos is sorted by date, latest first.
MaxVideos == 201
\* Renderings of the grid in one behaviour; Date.now() of a rendering is its
\* number.
MaxRenders == 5

\* this.maxCachedItems, and the itemsPerPage of the constructor.
MaxCachedItems == 200
DefaultItemsPerPage == 25

\* The options of the itemsPerPage selects.
ItemsPerPageOptions == { 10, 25, 50, 100 }

TitleOf(i) == IF i % 2 = 1 THEN <<"a">> ELSE <<"b">>

\* str.includes(f)
Includes(str, f) ==
    \E i \in 0..(Len(str) - Len(f)) : SubSeq(str, i + 1, i + Len(f)) = f

\* The filters: a title text, and a from and a to date, 0 when one of the
\* three fields of the date is empty.
NoFilter == [ title |-> <<>>, from |-> 0, to |-> 0 ]
Filters ==
    { NoFilter,
      [ title |-> <<"a">>, from |-> 0, to |-> 0 ],
      [ title |-> <<>>, from |-> 150, to |-> 0 ],
      [ title |-> <<>>, from |-> 150, to |-> 100 ] }

\* The callback of this.videos.filter
Passes(i, f) ==
    /\ f.title = <<>> \/ Includes(TitleOf(i), f.title)
    /\ f.from = 0 \/ ~(i < f.from)
    /\ f.to = 0 \/ ~(i > f.to)

\* this.videos: the videos, latest first.
Videos == [ k \in 1..MaxVideos |-> MaxVideos + 1 - k ]

\* filterVideos
FilterVideos(f) == SelectSeq(Videos, LAMBDA i : Passes(i, f))

\* Math.ceil(a / b) for b > 0
Ceil(a, b) == (a + b - 1) \div b

TotalPages(p) == Ceil(Len(p.filteredVideos), p.itemsPerPage)

Larger(a, b) == IF a >= b THEN a ELSE b
Smaller(a, b) == IF a <= b THEN a ELSE b

\* parseInt of the value of a number input: an optional minus sign, then
\* the leading digits.
ParseIntSigned(str) ==
    IF str # <<>> /\ str[1] = "-"
    THEN LET r == ParseInt(SubSeq(str, 2, Len(str)))
         IN  [ nan |-> r.nan, n |-> 0 - r.n ]
    ELSE ParseInt(str)

\* parseInt(e.target.value) || 1
ParseIntOr1(str) ==
    LET r == ParseIntSigned(str)
    IN  IF r.nan \/ r.n = 0 THEN 1 ELSE r.n

\* A page number that is only kept below the number of pages.
ClampPageNoFloor(totalPages, n) == Smaller(totalPages, n)

\* Math.max(1, Math.min(totalPages, n))
ClampPage(totalPages, n) == Larger(1, Smaller(totalPages, n))

\* The value of a page input after a change: it is a number input, whose
\* value is empty when what was typed is not a number.
PageTexts == { <<>>, <<"0">>, <<"9">>, <<"-", "1">> }

\* array.slice(start, end): an index below 0 counts from the end, and
\* both are kept within the array.
Slice(array, start, end) ==
    LET from == IF start < 0 THEN Larger(Len(array) + start, 0)
                ELSE Smaller(start, Len(array))
        to == IF end < 0 THEN Larger(Len(array) + end, 0)
              ELSE Smaller(end, Len(array))
    IN  IF to <= from THEN <<>> ELSE SubSeq(array, from + 1, to)

\* videosToShow of renderVideos
VideosToShow(p) ==
    LET startIndex == (p.currentPage - 1) * p.itemsPerPage
        endIndex == startIndex + p.itemsPerPage
    IN  Slice(p.filteredVideos, startIndex, endIndex)

Range(s) == { s[i] : i \in 1..Len(s) }

\* The highest of a set of times, 0 for none.
Highest(S) == IF S = {} THEN 0 ELSE CHOOSE t \in S : \A u \in S : u <= t

\* The grid before the first rendering: no element, no access time.
EmptyGrid ==
    [ items |-> <<>>,                           \* the video-item elements, in document order
      shown |-> {},                             \* those whose display is not none
      times |-> [ i \in 1..MaxVideos |-> 0 ],   \* itemAccessTimes, 0 for no entry
      now |-> 0,                                \* renderings so far
      removed |-> {},                           \* the elements the last rendering removed
      latest |-> 0 ]                            \* the latest access time among them

\* buildVideoGrid: the grid is the page, all of it displayed; no access
\* time is set.
BuildVideoGrid(g, videosToShow) ==
    [ g EXCEPT !.items = videosToShow, !.shown = Range(videosToShow) ]

\* existingItems sorted by lastAccess; the sort is stable.
RECURSIVE SortedByAccess(_, _, _)
SortedByAccess(items, times, t) ==
    IF t > MaxRenders THEN <<>>
    ELSE SelectSeq(items, LAMBDA i : times[i] = t) \o SortedByAccess(items, times, t + 1)

\* updateVideoGrid at time now
UpdateVideoGrid(g, videosToShow, now) ==
    LET existingItems == g.items
        page == Range(videosToShow)
        touched == [ i \in 1..MaxVideos |-> IF i \in page THEN now ELSE g.times[i] ]
        itemsToRemove ==
            IF Len(existingItems) > MaxCachedItems
            THEN Range(SubSeq(SortedByAccess(existingItems, touched, 0), 1,
                              Len(existingItems) - MaxCachedItems))
            ELSE {}
        remainingItems == SelectSeq(existingItems, LAMBDA i : i \notin itemsToRemove)
        remaining == Range(remainingItems)
        created == SelectSeq(videosToShow, LAMBDA i : i \notin remaining)
    IN  [ g EXCEPT
            !.items = remainingItems \o created,
            !.shown = page,
            !.times = [ i \in 1..MaxVideos |->
                          IF i \in page THEN now
                          ELSE IF i \in itemsToRemove THEN 0
                          ELSE g.times[i] ],
            !.removed = itemsToRemove,
            !.latest = Highest({ touched[i] : i \in itemsToRemove }) ]

\* renderVideos
RenderVideos(g, p) ==
    LET h == [ g EXCEPT !.now = g.now + 1, !.removed = {}, !.latest = 0 ]
    IN  IF Len(g.items) = 0
        THEN BuildVideoGrid(h, VideosToShow(p))
        ELSE UpdateVideoGrid(h, VideosToShow(p), h.now)

\* filterAndPaginate, for the filter f: the part of it that sets the pager.
Paginate(p, f, e) ==
    [ p EXCEPT !.filter = f, !.filteredVideos = FilterVideos(f), !.event = e ]

\* The pager of the constructor.
NewPager ==
    [ filter |-> NoFilter, filteredVideos |-> <<>>,
      itemsPerPage |-> DefaultItemsPerPage, currentPage |-> 1, event |-> "new" ]

\* init(), once the videos are loaded: filterAndPaginate.
InitPage ==
    /\ m3u8Content = <<>>
    /\ modifiedContent = <<>>
    /\ passes = 0
    /\ reqs = <<>>
    /\ video = Idle /\ timecodes = Idle /\ chat = Idle /\ dur = Idle
    /\ meta = Idle /\ emote = Idle
    /\ mappings = Idle /\ player = Idle /\ pane = Idle
    /\ pager = Paginate(NewPager, NoFilter, "init")
    /\ grid = RenderVideos(EmptyGrid, Paginate(NewPager, NoFilter, "init"))

\* A handler has set the pager to p and calls filterAndPaginate.
FilterAndPaginate(p, e) ==
    /\ grid.now < MaxRenders
    /\ pager' = Paginate(p, p.filter, e)
    /\ grid' = RenderVideos(grid, Paginate(p, p.filter, e))

\* 'input' of the title filter or of a field of the dates; the filter the
\* fields give may be the one they gave before, as when one field of a
\* date is typed and the two others are empty.
FilterInput ==
    \E f \in Filters :
        FilterAndPaginate([ pager EXCEPT !.currentPage = 1, !.filter = f ], "filter")

\* 'click' of clearFilters
ClearFilters ==
    FilterAndPaginate([ pager EXCEPT !.currentPage = 1, !.filter = NoFilter ], "clear")

\* 'click' of prevBtn or bottomPrevBtn
PrevClick ==
    /\ pager.currentPage > 1
    /\ FilterAndPaginate([ pager EXCEPT !.currentPage = pager.currentPage - 1 ], "prev")

\* 'click' of nextBtn or bottomNextBtn
NextClick ==
    /\ pager.currentPage < TotalPages(pager)
    /\ FilterAndPaginate([ pager EXCEPT !.currentPage = pager.currentPage + 1 ], "next")

\* 'change' of pageInput or bottomPageInput
PageInput ==
    \E value \in PageTexts :
        FilterAndPaginate([ pager EXCEPT !.currentPage =
                              ClampPage(TotalPages(pager), ParseIntOr1(value)) ], "page")

\* 'change' of itemsPerPage or bottomItemsPerPage
ItemsPerPageChange ==
    \E n \in ItemsPerPageOptions :
        /\ n # pager.itemsPerPage
        /\ FilterAndPaginate([ pager EXCEPT !.itemsPerPage = n, !.currentPage = 1 ], "items")

NextPage ==
    \/ FilterInput /\ UNCHANGED <<rewriteVars, reqs, handlerVars, storeVars, mappings, player, pane>>
    \/ ClearFilters /\ UNCHANGED <<rewriteVars, reqs, handlerVars, storeVars, mappings, player, pane>>
    \/ PrevClick /\ UNCHANGED <<rewriteVars, reqs, handlerVars, storeVars, mappings, player, pane>>
    \/ NextClick /\ UNCHANGED <<rewriteVars, reqs, handlerVars, storeVars, mappings, player, pane>>
    \/ PageInput /\ UNCHANGED <<rewriteVars, reqs, handlerVars, storeVars, mappings, player, pane>>
    \/ ItemsPerPageChange /\ UNCHANGED <<rewriteVars, reqs, handlerVars, storeVars, mappings, player, pane>>

SpecPage == InitPage /\ [][NextPage]_vars

---------------------------------------------------------------------------
(* The page's position tracking: saveVideoPosition, autoResumeVideo,       *)
(* setupVideoPositionTracking and setupNormalEventListeners, for one       *)
(* loadVideo call                                                          *)

\* VIDEO_POSITION_CONFIG.minSaveTime and .resumeThreshold, and the 30 of
\* `duration - 30`.
MinSaveTime == 30
ResumeThreshold == 60
EndMargin == 30

\* Positions of the player and durations of videos, in seconds.
PlayerTimes == { 0, 29, 30, 60, 61, 90, 91 }
Durations == { 50, 120 }

NoPosition == [ has |-> FALSE, time |-> 0, duration |-> 0 ]
Position(time, duration) == [ has |-> TRUE, time |-> time, duration |-> duration ]

\* What localStorage holds for the video when it is loaded: nothing, or a
\* position an earlier visit saved.
SavedPositions == { NoPosition, Position(60, 120), Position(61, 120) }

NoCall == [ made |-> FALSE, time |-> 0, duration |-> 0, before |-> NoPosition,
            resuming |-> FALSE ]

\* A saveVideoPosition without the check of the end of the video.
SaveVideoPositionNoEndCheck(p, currentTime, duration) ==
    LET q == [ p EXCEPT !.call = [ made |-> TRUE, time |-> currentTime,
                                   duration |-> duration, before |-> p.saved,
                                   resuming |-> p.isResuming ] ]
    IN  IF currentTime < MinSaveTime THEN q
        ELSE [ q EXCEPT !.saved = Position(currentTime, duration) ]

\* saveVideoPosition(videoId, currentTime, duration).  call keeps what it was
\* called with, for the step it was called in.
SaveVideoPosition(p, currentTime, duration) ==
    LET q == [ p EXCEPT !.call = [ made |-> TRUE, time |-> currentTime,
                                   duration |-> duration, before |-> p.saved,
                                   resuming |-> p.isResuming ] ]
    IN  IF currentTime < MinSaveTime THEN q
        ELSE IF currentTime > duration - EndMargin THEN q
        ELSE [ q EXCEPT !.saved = Position(currentTime, duration) ]

\* clearVideoPosition(videoId)
ClearVideoPosition(p) == [ p EXCEPT !.saved = NoPosition ]

\* savePosition: nothing while resuming, nothing when currentTime or
\* duration is 0 or NaN (duration is NaN until the metadata is loaded).
SavePosition(p) ==
    IF p.isResuming THEN p
    ELSE IF p.currentTime # 0 /\ p.metadata /\ p.duration # 0
         THEN SaveVideoPosition(p, p.currentTime, p.duration)
         ELSE p

\* startSaving and stopSaving
StartSaving(p) == [ p EXCEPT !.saveTimer = TRUE ]
StopSaving(p) == [ p EXCEPT !.saveTimer = FALSE ]

\* autoResumeVideo(player, savedTime): isResuming is set and onFirstPlay is
\* registered for 'play'.
AutoResumeVideo(p) == [ p EXCEPT !.isResuming = TRUE, !.onFirstPlay = TRUE ]

\* An auto-resume that can be armed more than once.
DoAutoResumeAgain(p) ==
    IF ~p.shouldResume THEN p
    ELSE AutoResumeVideo([ p EXCEPT !.hasResumed = TRUE ])

\* doAutoResume
DoAutoResume(p) ==
    IF p.hasResumed \/ p.isResuming \/ ~p.shouldResume THEN p
    ELSE AutoResumeVideo([ p EXCEPT !.hasResumed = TRUE ])

\* onFirstPlay: it removes itself, pauses, registers onSeeked and seeks to
\* the saved time.
OnFirstPlay(p) ==
    [ p EXCEPT !.onFirstPlay = FALSE,
               !.paused = TRUE,
               !.isResuming = TRUE,
               !.onSeeked = TRUE,
               !.seeking = TRUE,
               !.resumeSeeks = p.resumeSeeks + 1,
               !.seekAfterStartOver = p.startedOver ]

\* onSeeked: the resume is over, it removes itself and calls play().
OnSeeked(p) ==
    [ p EXCEPT !.isResuming = FALSE, !.onSeeked = FALSE, !.resumed = TRUE ]

\* A 'play' handler that starts the periodic saving whatever isResuming is.
TrackingPlayAlwaysSaves(p) ==
    IF p.shouldResume /\ ~p.hasResumed
    THEN DoAutoResume([ p EXCEPT !.paused = TRUE ])
    ELSE StartSaving(p)

\* The 'play' handler of setupVideoPositionTracking.
TrackingPlay(p) ==
    IF p.shouldResume /\ ~p.hasResumed
    THEN DoAutoResume([ p EXCEPT !.paused = TRUE ])
    ELSE IF ~p.isResuming THEN StartSaving(p) ELSE p

\* The 'play' handler of setupNormalEventListeners.
NormalPlay(p) == IF ~p.isResuming THEN StartSaving(p) ELSE p

\* The handlers of 'play', in the order they were registered; a handler
\* registered while the event is dispatched is not called for it.
PlayHandlers(p) ==
    LET a == IF p.tracking THEN TrackingPlay(p) ELSE p
        b == IF p.onFirstPlay THEN OnFirstPlay(a) ELSE a
    IN  IF p.normal THEN NormalPlay(b) ELSE b

\* The handlers of 'seeked': the one of the tracking, then onSeeked.
SeekedHandlers(p) ==
    LET a == IF p.isResuming THEN p ELSE SavePosition(p)
    IN  IF p.onSeeked THEN OnSeeked(a) ELSE a

\* The click handler of the Start Over button.
StartOverClick(p) ==
    [ ClearVideoPosition(p) EXCEPT
        !.hasResumed = FALSE, !.shouldResume = FALSE, !.isResuming = FALSE,
        !.tracking = FALSE, !.onFirstPlay = FALSE,     \* player.off('play')
        !.currentTime = 0, !.seeking = FALSE,          \* player.currentTime(0)
        !.normal = TRUE,                               \* setupNormalEventListeners
        !.startOverBtn = FALSE,
        !.startedOver = TRUE ]

\* loadVideo up to the end of setupVideoPositionTracking, for a video whose
\* saved position is saved.
LoadVideo(saved) ==
    [ pc |-> "loaded",
      saved |-> saved,                  \* localStorage's entry of the video
      savedTime |-> saved.time,         \* savedPosition.time of the closure
      shouldResume |-> saved.has /\ saved.time > ResumeThreshold,
      hasResumed |-> FALSE,
      isResuming |-> FALSE,
      startOverBtn |-> saved.has /\ saved.time > ResumeThreshold,
      saveTimer |-> FALSE,
      tracking |-> TRUE,                \* the 'play' handler of the tracking
      normal |-> FALSE,                 \* the normal listeners are installed
      onFirstPlay |-> FALSE,            \* onFirstPlay is registered
      onSeeked |-> FALSE,               \* onSeeked is registered
      timeout |-> FALSE,                \* a setTimeout(doAutoResume) is pending
      metadata |-> FALSE,
      duration |-> 0,
      currentTime |-> 0,
      paused |-> TRUE,
      seeking |-> FALSE,                \* the seek to the saved time is under way
      resumeSeeks |-> 0,                \* seeks to the saved time issued
      seekAfterStartOver |-> FALSE,     \* one was issued after Start Over
      startedOver |-> FALSE,
      resumed |-> FALSE,                \* onSeeked has run
      event |-> "load",                 \* the event of the last step
      was |-> FALSE,                    \* isResuming when that event arrived
      call |-> NoCall ]                 \* the saveVideoPosition call of the last step

\* The player when the event e arrives: what the last step had to show is
\* no longer shown.
Fresh(p, e) == [ p EXCEPT !.call = NoCall, !.event = e, !.was = p.isResuming ]

\* The page after init(): the list of videos is rendered, no video is
\* loaded.
InitPlayer ==
    /\ m3u8Content = <<>>
    /\ modifiedContent = <<>>
    /\ passes = 0
    /\ reqs = <<>>
    /\ video = Idle /\ timecodes = Idle /\ chat = Idle /\ dur = Idle
    /\ meta = Idle /\ emote = Idle
    /\ mappings = Idle /\ pane = Idle
    /\ player = Idle
    /\ pager = Paginate(NewPager, NoFilter, "init")
    /\ grid = RenderVideos(EmptyGrid, Paginate(NewPager, NoFilter, "init"))

\* The renderVideos() that ends loadVideo and the handlers of Start Over
\* and of 'ended'.
RenderAgain ==
    /\ grid.now < MaxRenders
    /\ grid' = RenderVideos(grid, pager)
    /\ pager' = pager

\* A video of the list is clicked: archive.loadVideo(videoId), for the first
\* video the page loads.  The listeners of setupVideoTimeTracking are the
\* actions of the chat pane.
LoadVideoClick ==
    /\ player = Idle
    /\ pager # Idle
    /\ \E saved \in SavedPositions : player' = LoadVideo(saved)
    /\ RenderAgain

\* 'loadedmetadata': the duration is known, doAutoResume is scheduled.
LoadedMetadata ==
    /\ player # Idle
    /\ \E d \in Durations :
          player' = [ Fresh(player, "loadedmetadata") EXCEPT
                        !.metadata = TRUE,
                        !.duration = IF player.metadata THEN player.duration ELSE d,
                        !.timeout = TRUE ]

\* The timeout of onMetadataLoaded fires.
AutoResumeTimeout ==
    /\ player # Idle
    /\ player.timeout
    /\ player' = DoAutoResume([ Fresh(player, "timeout") EXCEPT !.timeout = FALSE ])

\* 'play': the user starts the playback, or play() was called.
PlayEvent ==
    /\ player # Idle
    /\ player' = PlayHandlers([ Fresh(player, "play") EXCEPT !.paused = FALSE ])

\* 'pause'
PauseEvent ==
    /\ player # Idle
    /\ ~player.paused \/ player.seeking
    /\ player' = LET p == [ Fresh(player, "pause") EXCEPT !.paused = TRUE ]
                 IN  IF p.isResuming THEN p ELSE SavePosition(p)

\* 'seeked': the seek to the saved time has completed, or a seek of the user.
SeekedEvent ==
    \/ /\ player # Idle
       /\ player.seeking
       /\ player' = SeekedHandlers([ Fresh(player, "seeked") EXCEPT
                                       !.seeking = FALSE,
                                       !.currentTime = player.savedTime ])
    \/ /\ player # Idle
       /\ player.metadata
       /\ \E t \in PlayerTimes :
             /\ t <= player.duration
             /\ player' = SeekedHandlers([ Fresh(player, "seeked") EXCEPT !.currentTime = t ])

\* The playback advances.
TimeUpdate ==
    /\ player # Idle
    /\ ~player.paused
    /\ player.metadata
    /\ \E t \in PlayerTimes :
          /\ t > player.currentTime
          /\ t <= player.duration
          /\ player' = [ Fresh(player, "timeupdate") EXCEPT !.currentTime = t ]

\* The callback of the setInterval of startSaving.
SaveTimerTick ==
    /\ player # Idle
    /\ player.saveTimer
    /\ player' = SavePosition(Fresh(player, "timer"))

\* 'beforeunload'
BeforeUnload ==
    /\ player # Idle
    /\ player' = SavePosition(Fresh(player, "beforeunload"))

\* 'ended': the handler of the tracking, which player.off('play') leaves in
\* place, and after Start Over the one of the normal listeners as well.
\* Each stops the saving, clears the position, removes the button and
\* calls renderVideos().
Ended ==
    /\ player # Idle
    /\ ~player.paused
    /\ player.metadata
    /\ player' = [ ClearVideoPosition(StopSaving(Fresh(player, "ended"))) EXCEPT
                     !.paused = TRUE,
                     !.currentTime = player.duration,
                     !.startOverBtn = FALSE ]
    /\ IF player.normal
       THEN /\ grid.now + 1 < MaxRenders
            /\ grid' = RenderVideos(RenderVideos(grid, pager), pager)
            /\ pager' = pager
       ELSE RenderAgain

\* The Start Over button is clicked.
StartOver ==
    /\ player # Idle
    /\ player.startOverBtn
    /\ player' = StartOverClick(Fresh(player, "startOver"))
    /\ RenderAgain

NextPlayer ==
    \/ LoadVideoClick /\ UNCHANGED <<rewriteVars, reqs, handlerVars, storeVars, mappings, pane>>
    \/ LoadedMetadata /\ UNCHANGED <<rewriteVars, reqs, handlerVars, storeVars, mappings, pager, grid, pane>>
    \/ AutoResumeTimeout /\ UNCHANGED <<rewriteVars, reqs, handlerVars, storeVars, mappings, pager, grid, pane>>
    \/ PlayEvent /\ UNCHANGED <<rewriteVars, reqs, handlerVars, storeVars, mappings, pager, grid, pane>>
    \/ PauseEvent /\ UNCHANGED <<rewriteVars, reqs, handlerVars, storeVars, mappings, pager, grid, pane>>
    \/ SeekedEvent /\ UNCHANGED <<rewriteVars, reqs, handlerVars, storeVars, mappings, pager, grid, pane>>
    \/ TimeUpdate /\ UNCHANGED <<rewriteVars, reqs, handlerVars, storeVars, mappings, pager, grid, pane>>
    \/ SaveTimerTick /\ UNCHANGED <<rewriteVars, reqs, handlerVars, storeVars, mappings, pager, grid, pane>>
    \/ BeforeUnload /\ UNCHANGED <<rewriteVars, reqs, handlerVars, storeVars, mappings, pager, grid, pane>>
    \/ Ended /\ UNCHANGED <<rewriteVars, reqs, handlerVars, storeVars, mappings, pane>>
    \/ StartOver /\ UNCHANGED <<rewriteVars, reqs, handlerVars, storeVars, mappings, pane>>

SpecPlayer == InitPlayer /\ [][NextPlayer]_vars

---------------------------------------------------------------------------
(* The chat pane of the page: setupVideoTimeTracking,                      *)
(* loadAndDisplayChatForSecond and appendChatMessages                      *)

\* Per-second chat requests of one behaviour.
MaxFetches == 3

\* appendChatMessages keeps the last 50 messages.
KeptMessages == 50

\* Math.floor(player.currentTime()) of an event.
PaneSeconds == 0..MaxSecond

\* The messages a response may hold for its second: none or one.
MessageCounts == { 0, 1 }

\* The pane when setupVideoTimeTracking returns: lastChatTime is -1 from the
\* constructor, the two locals are false and -1.
NewPane ==
    [ hasStartedPlaying |-> FALSE,
      lastDisplayedSecond |-> -1,
      lastChatTime |-> -1,
      fetches |-> 0,          \* per-second requests sent so far
      inFlight |-> {},        \* those whose response has not come
      chatMessages |-> <<>>,  \* the children of the pane, each with its request
      cleared |-> FALSE ]     \* a seek has cleared the pane

\* loadAndDisplayChatForSecond up to its await of fetch: request number
\* p.fetches + 1 is for the second currentTime; stale tells that a seek has
\* cleared the pane since it was sent.
LoadAndDisplayChatForSecond(p, currentTime) ==
    [ p EXCEPT !.fetches = p.fetches + 1,
               !.inFlight = p.inFlight \cup
                   { [ n |-> p.fetches + 1, second |-> currentTime, stale |-> FALSE ] } ]

\* appendChatMessages(messages), for the count messages of the request r.
AppendChatMessages(p, r, count) ==
    LET all == p.chatMessages \o [ i \in 1..count |-> r ]
    IN  IF count = 0 THEN p
        ELSE [ p EXCEPT !.chatMessages =
                 IF Len(all) > KeptMessages
                 THEN SubSeq(all, Len(all) - KeptMessages + 1, Len(all))
                 ELSE all ]

InitPane ==
    /\ m3u8Content = <<>>
    /\ modifiedContent = <<>>
    /\ passes = 0
    /\ reqs = <<>>
    /\ video = Idle /\ timecodes = Idle /\ chat = Idle /\ dur = Idle
    /\ meta = Idle /\ emote = Idle
    /\ mappings = Idle /\ player = Idle /\ pager = Idle /\ grid = Idle
    /\ pane = NewPane

\* 'play'
PanePlay ==
    /\ ~pane.hasStartedPlaying
    /\ pane' = [ pane EXCEPT !.hasStartedPlaying = TRUE ]

\* 'timeupdate' at the second currentTime
PaneTimeUpdate ==
    \E currentTime \in PaneSeconds :
        /\ currentTime # pane.lastChatTime
        /\ currentTime > 0
        /\ pane.fetches < MaxFetches
        /\ pane' = [ (IF pane.hasStartedPlaying /\ currentTime # pane.lastDisplayedSecond
                      THEN [ LoadAndDisplayChatForSecond(pane, currentTime)
                               EXCEPT !.lastDisplayedSecond = currentTime ]
                      ELSE pane)
                     EXCEPT !.lastChatTime = currentTime ]

\* 'seeked' at the second currentTime, once the playback has started: the
\* pane is emptied and the second is requested.
PaneSeeked ==
    \E currentTime \in PaneSeconds :
        /\ pane.hasStartedPlaying
        /\ pane.fetches < MaxFetches
        /\ pane' = [ LoadAndDisplayChatForSecond(
                        [ pane EXCEPT
                            !.chatMessages = <<>>,
                            !.cleared = TRUE,
                            !.inFlight = { [ r EXCEPT !.stale = TRUE ] : r \in pane.inFlight } ],
                        currentTime)
                     EXCEPT !.lastDisplayedSecond = currentTime ]

\* The response of a request comes, whichever of those in flight it is:
\* loadAndDisplayChatForSecond goes on after its awaits.
PaneResponse ==
    \E r \in pane.inFlight : \E count \in MessageCounts :
        /\ pane' = AppendChatMessages([ pane EXCEPT !.inFlight = pane.inFlight \ { r } ],
                                      r, count)

\* The response is not ok, or the fetch rejects: nothing is appended.
PaneNoResponse ==
    \E r \in pane.inFlight :
        /\ pane' = [ pane EXCEPT !.inFlight = pane.inFlight \ { r } ]

NextPane ==
    \/ PanePlay /\ UNCHANGED <<rewriteVars, reqs, handlerVars, storeVars, mappings, player, pager, grid>>
    \/ PaneTimeUpdate /\ UNCHANGED <<rewriteVars, reqs, handlerVars, storeVars, mappings, player, pager, grid>>
    \/ PaneSeeked /\ UNCHANGED <<rewriteVars, reqs, handlerVars, storeVars, mappings, player, pager, grid>>
    \/ PaneNoResponse /\ UNCHANGED <<rewriteVars, reqs, handlerVars, storeVars, mappings, player, pager, grid>>
    \/ PaneResponse /\ UNCHANGED <<rewriteVars, reqs, handlerVars, storeVars, mappings, player, pager, grid>>

SpecPane == InitPane /\ [][NextPane]_vars

---------------------------------------------------------------------------
(* Vocabulary of the manifest claims *)

\* The lines of a text: the runs between line terminators.
RECURSIVE LinesFrom(_, _)
LinesFrom(s, i) ==
    LET e == LineEnd(s, i)
    IN  IF e >= Len(s) THEN << SubSeq(s, i, e) >>
        ELSE << SubSeq(s, i, e) >> \o LinesFrom(s, e + 2)

Lines(s) == LinesFrom(s, 1)

IsTerminator(c) == c \in LineTerminators
Terminators(s) == SelectSeq(s, IsTerminator)

HasQuote(l) == \E i \in 1..Len(l) : l[i] = Quote

\* Number of places of s at which lit occurs.
Count(s, lit) == Cardinality({ i \in 1..Len(s) : StartsWithAt(s, i, lit) })

\* out is `in` with copies of SegmentBase or Mp4Prefix inserted, nothing else.
RECURSIVE InsertsOnly(_, _, _, _)
InsertsOnly(in, i, out, j) ==
    IF i > Len(in) /\ j > Len(out) THEN TRUE
    ELSE \/ /\ i <= Len(in) /\ j <= Len(out) /\ in[i] = out[j]
            /\ InsertsOnly(in, i + 1, out, j + 1)
         \/ /\ StartsWithAt(out, j, SegmentBase)
            /\ InsertsOnly(in, i, out, j + Len(SegmentBase))
         \/ /\ StartsWithAt(out, j, Mp4Prefix)
            /\ InsertsOnly(in, i, out, j + Len(Mp4Prefix))

\* out is `in` with Mp4Prefix inserted only right after an occurrence of URI="
RECURSIVE UriInsertsOnly(_, _, _, _)
UriInsertsOnly(in, i, out, j) ==
    IF i > Len(in) /\ j > Len(out) THEN TRUE
    ELSE \/ /\ i <= Len(in) /\ j <= Len(out) /\ in[i] = out[j]
            /\ UriInsertsOnly(in, i + 1, out, j + 1)
         \/ /\ i > Len(UriOpen)
            /\ SubSeq(in, i - Len(UriOpen), i - 1) = UriOpen
            /\ StartsWithAt(out, j, Mp4Prefix)
            /\ UriInsertsOnly(in, i, out, j + Len(Mp4Prefix))

\* The line starts with http://, https:// or #.
IsAbsoluteOrDirective(l) ==
    \/ StartsWithAt(l, 1, <<"h","t","t","p",":","/","/">>)
    \/ StartsWithAt(l, 1, <<"h","t","t","p","s",":","/","/">>)
    \/ StartsWithAt(l, 1, <<"#">>)

\* A reference line: <name><ext> with a non-empty name, not absolute, not a
\* directive.
IsRelativeRef(l, ext) ==
    /\ Len(l) > Len(ext)
    /\ EndsWith(l, ext)
    /\ ~IsAbsoluteOrDirective(l)

\* out is prefix + line, where a line that holds no quote is kept as it is
\* and a line with quotes may have its URI attributes rewritten.
PrefixedLine(line, out, prefix) ==
    /\ StartsWithAt(out, 1, prefix)
    /\ LET kept == SubSeq(out, Len(prefix) + 1, Len(out))
       IN  /\ UriInsertsOnly(line, 1, kept, 1)
           /\ ~HasQuote(line) => kept = line

\* The quoted values that follow URI=" in s.
UriValues(s) ==
    { SubSeq(s, i + Len(UriOpen), NextQuote(s, i + Len(UriOpen)) - 1) :
        i \in { k \in 1..Len(s) :
                  /\ StartsWithAt(s, k, UriOpen)
                  /\ NextQuote(s, k + Len(UriOpen)) # 0 } }

\* <path>.mp4 with a non-empty path and no line terminator in it.
IsContainerPath(p) ==
    /\ Len(p) > Len(Mp4Ext)
    /\ EndsWith(p, Mp4Ext)
    /\ \A i \in 1..Len(p) : p[i] \notin LineTerminators

\* The part of a reference before its query string.
RECURSIVE PathBeforeQueryFrom(_, _)
PathBeforeQueryFrom(l, i) ==
    IF i > Len(l) \/ l[i] = "?" THEN SubSeq(l, 1, i - 1)
    ELSE PathBeforeQueryFrom(l, i + 1)

PathBeforeQuery(l) == PathBeforeQueryFrom(l, 1)

---------------------------------------------------------------------------
(* Claims about the manifest rewrite (checked under SpecRewrite) *)

\* C1: the rewrite is idempotent: applied to its own output it gives the same
\* text, rewrite(rewrite(x)) = rewrite(x). (After RewriteAgain, m3u8Content
\* holds the first output and modifiedContent the second.)
C1_RewriteIdempotent ==
    passes = 2 => modifiedContent = m3u8Content

\* C2: the rewritten manifest has as many lines as the input, with the same
\* line terminators in the same order, and line i of the output is line i of
\* the input or that line with replacement prefixes inserted.
C2_LinesPreserved ==
    passes >= 1 =>
        LET inL == Lines(m3u8Content)
            outL == Lines(modifiedContent)
        IN  /\ Len(outL) = Len(inL)
            /\ Terminators(modifiedContent) = Terminators(m3u8Content)
            /\ \A i \in 1..Len(inL) : InsertsOnly(inL[i], 1, outL[i], 1)

C2_Witness ==
    /\ passes = 1
    /\ Len(Lines(m3u8Content)) >= 2
    /\ \E i, j \in 1..Len(Lines(m3u8Content)) :
          /\ Lines(modifiedContent)[i] # Lines(m3u8Content)[i]
          /\ Lines(modifiedContent)[j] = Lines(m3u8Content)[j]
          /\ Lines(m3u8Content)[j] # <<>>

\* C3: the three rules. A relative non-# line <name>.ts becomes SegmentBase +
\* line; a relative non-# line <name>.mp4 becomes Mp4Prefix + line; every
\* URI="<path>.mp4" becomes URI="/api/mp4/<path>.mp4", each occurrence on its
\* own (as many rewritten occurrences in the output as occurrences in the
\* input).
C3_ThreeRules ==
    passes >= 1 =>
        LET inL == Lines(m3u8Content)
            outL == Lines(modifiedContent)
        IN  /\ Len(outL) = Len(inL)
            /\ \A i \in 1..Len(inL) :
                  /\ IsRelativeRef(inL[i], TsExt)
                        => PrefixedLine(inL[i], outL[i], SegmentBase)
                  /\ IsRelativeRef(inL[i], Mp4Ext)
                        => PrefixedLine(inL[i], outL[i], Mp4Prefix)
            /\ \A p \in UriValues(m3u8Content) :
                  IsContainerPath(p) =>
                      Count(modifiedContent, UriOpen \o Mp4Prefix \o p \o <<Quote>>)
                          = Count(m3u8Content, UriOpen \o p \o <<Quote>>)

\* The same container path on two bare lines, both rewritten.
C3_Witness ==
    /\ passes = 1
    /\ \E i, j \in 1..Len(Lines(m3u8Content)) :
          /\ i < j
          /\ Lines(m3u8Content)[i] = Lines(m3u8Content)[j]
          /\ IsRelativeRef(Lines(m3u8Content)[i], Mp4Ext)
          /\ Lines(modifiedContent)[i] = Mp4Prefix \o Lines(m3u8Content)[i]
          /\ Lines(modifiedContent)[j] = Mp4Prefix \o Lines(m3u8Content)[j]

\* The line of s that position i lies in (a terminator belongs to the line
\* it ends).
RECURSIVE LineStart(_, _)
LineStart(s, i) ==
    IF i <= 1 \/ IsLineStart(s, i) THEN i ELSE LineStart(s, i - 1)

LineAt(s, i) == SubSeq(s, LineStart(s, i), LineEnd(s, LineStart(s, i)))

\* The lines C4 is about: those that start with http://, https:// or #,
\* blank lines, and lines that end neither in .ts nor in .mp4.
IsFrameLine(l) ==
    \/ IsAbsoluteOrDirective(l)
    \/ l = <<>>
    \/ ~(EndsWith(l, TsExt) \/ EndsWith(l, Mp4Ext))

\* Position i of s is where the quoted value of a URI="<path>.mp4" attribute
\* begins: URI=" stands right before it, and the text from i to the next
\* quote is a non-empty path followed by .mp4.
UriValueAt(s, i) ==
    /\ i > Len(UriOpen)
    /\ SubSeq(s, i - Len(UriOpen), i - 1) = UriOpen
    /\ LET q == NextQuote(s, i)
       IN  /\ q # 0
           /\ q - i >= Len(Mp4Ext) + 1
           /\ SubSeq(s, q - Len(Mp4Ext), q - 1) = Mp4Ext

\* out is `in` from i on, every character kept in its place, with nothing
\* put in but
\*   - /api/mp4/ in front of the quoted value of a URI="<path>.mp4"
\*     attribute: one that stands in a directive line or in a line outside
\*     the frame, and in any line at all when anywhere is TRUE;
\*   - one of the two prefixes at the start of a line outside the frame.
RECURSIVE FrameKept(_, _, _, _, _)
FrameKept(in, i, out, j, anywhere) ==
    IF i > Len(in) THEN j > Len(out)
    ELSE \/ /\ j <= Len(out) /\ in[i] = out[j]
            /\ FrameKept(in, i + 1, out, j + 1, anywhere)
         \/ /\ UriValueAt(in, i)
            /\ \/ anywhere
               \/ StartsWithAt(LineAt(in, i), 1, Hash)
               \/ ~IsFrameLine(LineAt(in, i))
            /\ StartsWithAt(out, j, Mp4Prefix \o <<in[i]>>)
            /\ FrameKept(in, i + 1, out, j + Len(Mp4Prefix) + 1, anywhere)
         \/ /\ IsLineStart(in, i)
            /\ ~IsFrameLine(LineAt(in, i))
            /\ \E prefix \in { SegmentBase, Mp4Prefix } :
                  /\ StartsWithAt(out, j, prefix \o <<in[i]>>)
                  /\ FrameKept(in, i + 1, out, j + Len(prefix) + 1, anywhere)

\* C4, as the claim is worded: a line that starts with http:// or https://,
\* a blank line, and a line that ends neither in .ts nor in .mp4, is left as
\* it was, and so is a line that starts with #, except that /api/mp4/ is put
\* in front of the quoted value of a URI="...mp4" attribute of a # line.
C4_FrameLines ==
    passes >= 1 => FrameKept(m3u8Content, 1, modifiedContent, 1, FALSE)

\* C4, amended: the lines are left as they were, except that /api/mp4/ is put
\* in front of the quoted value of a URI="...mp4" attribute wherever the
\* attribute stands: in a # line, in a line that starts with http:// or
\* https://, or in a line that does not end in .ts or .mp4.
C4_FrameLinesButUriValues ==
    passes >= 1 => FrameKept(m3u8Content, 1, modifiedContent, 1, TRUE)

\* A line that starts with https:// and holds a URI attribute, of which only
\* the quoted value is rewritten.
C4_Witness ==
    /\ passes = 1
    /\ \E i \in 1..Len(Lines(m3u8Content)) :
          /\ StartsWithAt(Lines(m3u8Content)[i], 1, HttpsScheme)
          /\ UriValues(Lines(m3u8Content)[i]) # {}
          /\ Lines(modifiedContent)[i] # Lines(m3u8Content)[i]

\* C5: a relative bare reference whose path before the query string ends in
\* .ts or .mp4 is rewritten like the reference without the query, the query
\* kept.
C5_QueryRefsRewritten ==
    passes >= 1 =>
        LET inL == Lines(m3u8Content)
            outL == Lines(modifiedContent)
        IN  /\ Len(outL) = Len(inL)
            /\ \A i \in 1..Len(inL) :
                  ~HasQuote(inL[i]) =>
                     /\ IsRelativeRef(PathBeforeQuery(inL[i]), TsExt)
                           => outL[i] = SegmentBase \o inL[i]
                     /\ IsRelativeRef(PathBeforeQuery(inL[i]), Mp4Ext)
                           => outL[i] = Mp4Prefix \o inL[i]

---------------------------------------------------------------------------
(* Claims about the container proxy (checked under Spec) *)

\* C6: every container reference the rewrite emits, once requested and past
\* the router, is handled by the container proxy and fetched from upstream
\* at the original relative path, sub-directories included.
C6_EmittedRefsReachProxy ==
    \A i \in 1..Len(reqs) :
        (reqs[i].ref # <<>> /\ reqs[i].pc # "sent") =>
            /\ reqs[i].route = "mp4"
            /\ reqs[i].upUrl = SegmentBase \o reqs[i].ref

\* C7: for a 2xx upstream response the proxy emits the upstream status, and
\* emits Content-Range and Accept-Ranges exactly when upstream sent them,
\* with upstream's values.
C7_RangePassthrough ==
    \A i \in 1..Len(reqs) :
        (reqs[i].route = "mp4" /\ reqs[i].upResult = "response"
                               /\ Ok(reqs[i].upStatus)) =>
            /\ reqs[i].status = reqs[i].upStatus
            /\ reqs[i].contentRange = reqs[i].upContentRange
            /\ reqs[i].acceptRanges = reqs[i].upAcceptRanges

\* The scenario of the specification: Range bytes=1000-1999, upstream 206
\* with Content-Range bytes 1000-1999/50000, relayed as such.
C7_Witness ==
    \E i \in 1..Len(reqs) :
        /\ reqs[i].range = <<"bytes=1000-1999">>
        /\ reqs[i].upStatus = 206
        /\ reqs[i].upContentRange = <<"bytes 1000-1999/50000">>
        /\ reqs[i].status = 206
        /\ reqs[i].contentRange = <<"bytes 1000-1999/50000">>
        /\ reqs[i].pc = "done"

\* C8: the upstream fetch of the container proxy carries the Range header of
\* the client's request when there is one, and none when there is none.
C8_RangeForwarded ==
    \A i \in 1..Len(reqs) :
        reqs[i].fetches > 0 => reqs[i].upRange = reqs[i].range

\* One fetch with the client's range and one fetch without any.
C8_Witness ==
    \E i, j \in 1..Len(reqs) :
        /\ reqs[i].fetches = 1 /\ reqs[i].range = <<"bytes=1000-1999">>
        /\ reqs[i].upRange = <<"bytes=1000-1999">>
        /\ reqs[j].fetches = 1 /\ reqs[j].range = NoHeader
        /\ reqs[j].upRange = NoHeader

\* C9: a non-2xx upstream answer ends the request with 404 after exactly one
\* upstream fetch.
C9_NotOkIs404 ==
    \A i \in 1..Len(reqs) :
        (reqs[i].route = "mp4" /\ reqs[i].upResult = "response"
                               /\ ~Ok(reqs[i].upStatus)) =>
            /\ reqs[i].status = 404
            /\ reqs[i].pc = "done"
            /\ reqs[i].fetches = 1

C9_Witness ==
    \E i \in 1..Len(reqs) :
        /\ reqs[i].route = "mp4"
        /\ reqs[i].upStatus = 500
        /\ reqs[i].status = 404
        /\ reqs[i].fetches = 1

\* C10: a rejected upstream fetch ends the request with 500 after exactly one
\* fetch, the step changes no other request, and a later request (one still
\* to be routed when the rejection happened) is handled as if the rejection
\* had not happened: it is routed the same way and makes its own fetch.
C10_RejectIs500 ==
    /\ [](\A i \in 1..Len(reqs) :
            reqs[i].upResult = "rejected" =>
                /\ reqs[i].status = 500
                /\ reqs[i].pc = "done"
                /\ reqs[i].fetches = 1)
    /\ [][\A i \in 1..Len(reqs) :
            (reqs[i].upResult = "none" /\ reqs'[i].upResult = "rejected") =>
                /\ Len(reqs') = Len(reqs)
                /\ \A j \in 1..Len(reqs) : j # i => reqs'[j] = reqs[j]]_vars
    /\ [][\A j \in 1..Len(reqs) :
            (reqs[j].pc = "sent" /\ reqs'[j].pc # "sent"
                /\ \E i \in 1..Len(reqs) :
                      /\ reqs[i].upResult = "rejected"
                      /\ reqs[i].url = reqs[j].url) =>
                /\ reqs'[j].route = "mp4"
                /\ reqs'[j].pc = "fetching"
                /\ reqs'[j].fetches = 1]_vars

\* A request that ended 500 on a rejected fetch, and a later request for the
\* same path that was fetched and answered.
C10_Witness ==
    \E i, j \in 1..Len(reqs) :
        /\ i < j
        /\ reqs[i].upResult = "rejected" /\ reqs[i].status = 500
        /\ reqs[j].url = reqs[i].url
        /\ reqs[j].upResult = "response" /\ reqs[j].status = 206

---------------------------------------------------------------------------
(* Claims about the manifest endpoint (checked under SpecVideo) *)

\* C11 as stated: when the upstream manifest fetch fails, by a non-2xx status
\* or by a network error, the endpoint answers "not found" (404 'Video not
\* found') and the rewrite is not applied.
C11_FailureIsNotFound ==
    (video.pc = "done" /\ (video.upResult = "rejected" \/ ~Ok(video.upStatus))) =>
        /\ video.status = 404
        /\ video.message = "Video not found"
        /\ video.rewrites = 0

\* C11 amended: a non-2xx upstream status is answered 404 'Video not found',
\* a rejected fetch is answered 500 'Error fetching video'; in both cases the
\* rewrite is not applied and no manifest is sent.
C11_FailureNeverRewrites ==
    video.pc = "done" =>
        /\ (video.upResult = "response" /\ ~Ok(video.upStatus)) =>
              /\ video.status = 404
              /\ video.message = "Video not found"
              /\ video.rewrites = 0 /\ video.body = <<>>
        /\ video.upResult = "rejected" =>
              /\ video.status = 500
              /\ video.message = "Error fetching video"
              /\ video.rewrites = 0 /\ video.body = <<>>

C11_Witness ==
    /\ video.pc = "done"
    /\ video.upResult = "rejected"
    /\ video.status = 500
    /\ video.rewrites = 0

---------------------------------------------------------------------------
(* Claims about the chat-range endpoint (checked under SpecChat) *)

\* The intra-second key of a message: its timestamp, 0 when it has none.
IntraSecond(m) == IF m.timestamp = <<>> THEN 0 ELSE m.timestamp[1]

\* The shard second a message of the output is filed under.
Second(m) == m.video_timestamp[1]

SameKey(a, b) == Second(a) = Second(b) /\ IntraSecond(a) = IntraSecond(b)

\* Upstream's message number k of the shard of second t precedes number l of
\* the shard of second u in collection order.
CollectedBefore(a, b) ==
    \/ a.body[1] < b.body[1]
    \/ a.body[1] = b.body[1] /\ a.body[2] < b.body[2]

\* The messages of the responses upstream answered with a 2xx status.
OkMessages ==
    UNION { { o.messages[k] : k \in 1..Len(o.messages) } :
            o \in { chat.outcomes[n] :
                      n \in { n \in 1..Len(chat.outcomes) :
                                chat.outcomes[n].kind = "ok" } } }

\* C12: in the returned array a message with a smaller video_timestamp
\* precedes one with a larger, and of two messages with equal video_timestamp
\* the one with the smaller intra-second timestamp (absent counts as 0)
\* comes first.
C12_OutputOrdered ==
    chat.pc = "done" =>
        \A i, j \in 1..Len(chat.body) :
            /\ Second(chat.body[i]) < Second(chat.body[j]) => i < j
            /\ ( Second(chat.body[i]) = Second(chat.body[j])
                 /\ IntraSecond(chat.body[i]) < IntraSecond(chat.body[j]) ) => i < j

C12_Witness ==
    /\ chat.pc = "done"
    /\ Len(chat.allMessages) = 3
    /\ chat.allMessages # chat.body
    /\ \E i \in 1..3 : chat.body[i].timestamp = <<>>
    /\ \E i, j \in 1..3 : Second(chat.body[i]) < Second(chat.body[j])

\* C13: messages of the returned array with equal (video_timestamp,
\* intra-second timestamp or 0) keys stand in the order in which they were
\* collected from their shard.
C13_TiesKeepCollectionOrder ==
    chat.pc = "done" =>
        \A i, j \in 1..Len(chat.body) :
            ( i < j /\ SameKey(chat.body[i], chat.body[j]) ) =>
                CollectedBefore(chat.body[i], chat.body[j])

C13_Witness ==
    /\ chat.pc = "done"
    /\ \E i, j \in 1..Len(chat.body) :
          /\ i < j
          /\ SameKey(chat.body[i], chat.body[j])
          /\ chat.body[i].timestamp # chat.body[j].timestamp
          /\ \E k \in 1..Len(chat.body) :
                IntraSecond(chat.body[k]) > IntraSecond(chat.body[i])

\* C14: for 0 <= start <= end a request fetches the shard of each second of
\* start..end exactly once, in ascending order, and no other shard:
\* end - start + 1 fetches, one when start = end.
C14_OneFetchPerSecond ==
    chat.pc # "idle" /\ ~chat.nan /\ chat.start <= chat.end =>
        /\ Len(chat.fetched) <= chat.end - chat.start + 1
        /\ \A k \in 1..Len(chat.fetched) : chat.fetched[k] = chat.start + k - 1
        /\ chat.pc = "done" => Len(chat.fetched) = chat.end - chat.start + 1

C14_Witness ==
    /\ chat.pc = "done"
    /\ chat.start = 1 /\ chat.end = 2
    /\ chat.fetched = <<1, 2>>

\* C15: a shard answered with a non-2xx status or not answered at all adds
\* no message and does not end the range: every second of the range is
\* fetched, the response is 200 and holds exactly the messages of the shards
\* answered with a 2xx status (none at all when no shard was).
C15_FailedShardSkipped ==
    chat.pc = "done" /\ ~chat.nan /\ chat.start <= chat.end =>
        /\ chat.status = 200
        /\ Len(chat.outcomes) = chat.end - chat.start + 1
        /\ { chat.body[i].body : i \in 1..Len(chat.body) }
              = { m.body : m \in OkMessages }
        /\ Len(chat.body) = Cardinality(OkMessages)

C15_Witness ==
    /\ chat.pc = "done"
    /\ Len(chat.outcomes) = 3
    /\ chat.outcomes[1].kind = "ok" /\ Len(chat.outcomes[1].messages) = 1
    /\ chat.outcomes[2].kind = "rejected"
    /\ chat.outcomes[3].kind = "ok" /\ Len(chat.outcomes[3].messages) = 1
    /\ chat.status = 200
    /\ Len(chat.body) = 2

\* C16: every message of the output carries as video_timestamp the second of
\* the shard it was fetched from, whatever upstream supplied for that field,
\* and its other fields are as upstream sent them.
C16_StampedWithShardSecond ==
    chat.pc = "done" =>
        \A i \in 1..Len(chat.body) :
            \E n \in 1..Len(chat.outcomes) :
                \E k \in 1..Len(chat.outcomes[n].messages) :
                    /\ chat.outcomes[n].kind = "ok"
                    /\ chat.outcomes[n].messages[k].body = chat.body[i].body
                    /\ chat.outcomes[n].messages[k].timestamp = chat.body[i].timestamp
                    /\ chat.body[i].video_timestamp = << chat.outcomes[n].t >>
                    /\ DOMAIN chat.body[i] = DOMAIN chat.outcomes[n].messages[k]

C16_Witness ==
    /\ chat.pc = "done"
    /\ \E n \in 1..Len(chat.outcomes) :
          /\ chat.outcomes[n].kind = "ok"
          /\ \E k \in 1..Len(chat.outcomes[n].messages) :
                /\ chat.outcomes[n].messages[k].video_timestamp # <<>>
                /\ chat.outcomes[n].messages[k].video_timestamp # << chat.outcomes[n].t >>
                /\ \E i \in 1..Len(chat.body) :
                      /\ chat.body[i].body = chat.outcomes[n].messages[k].body
                      /\ chat.body[i].video_timestamp = << chat.outcomes[n].t >>

\* The shard fetches of the request that were started and not yet settled.
InFlight == Len(chat.fetched) - Len(chat.outcomes)

\* C29: at most one shard fetch of a chat-range request is in flight at any
\* moment, whatever the range; the fetches settle in the order they were
\* started, and the place of a message in the output follows from its
\* second, its intra-second timestamp and its place in its shard alone.
C29_OneShardInFlight ==
    chat.pc # "idle" =>
        /\ InFlight \in { 0, 1 }
        /\ (InFlight = 1) <=> (chat.pc = "fetching")
        /\ \A n \in 1..Len(chat.outcomes) : chat.outcomes[n].t = chat.fetched[n]
        /\ chat.pc = "done" =>
              \A i, j \in 1..Len(chat.body) :
                  i < j =>
                      \/ Second(chat.body[i]) < Second(chat.body[j])
                      \/ /\ Second(chat.body[i]) = Second(chat.body[j])
                         /\ IntraSecond(chat.body[i]) < IntraSecond(chat.body[j])
                      \/ /\ SameKey(chat.body[i], chat.body[j])
                         /\ CollectedBefore(chat.body[i], chat.body[j])

C29_Witness ==
    /\ chat.pc = "fetching"
    /\ chat.start = 0 /\ chat.end = MaxSecond
    /\ chat.t = MaxSecond
    /\ InFlight = 1
    /\ Len(chat.allMessages) >= 2

\* The text is an integer: digits and nothing else.
IsInteger(str) == str # <<>> /\ \A i \in 1..Len(str) : IsDigit(str[i])

\* The integer the text writes is greater than the one the other writes.
GreaterText(a, b) == DigitsValue(a) > DigitsValue(b)

\* C34: a chat-range request whose start or end does not parse as an
\* integer, or whose start is greater than its end, fetches no shard and is
\* answered 200 with an empty array.
C34_EmptyRangeIsEmptyArray ==
    ( /\ chat.pc # "idle"
      /\ \/ ~IsDigit(chat.startTime[1])
         \/ ~IsDigit(chat.endTime[1])
         \/ /\ IsInteger(chat.startTime) /\ IsInteger(chat.endTime)
            /\ GreaterText(chat.startTime, chat.endTime) ) =>
        /\ chat.pc = "done"
        /\ chat.fetched = <<>>
        /\ chat.status = 200
        /\ chat.body = <<>>

C34_Witness ==
    /\ chat.pc = "done"
    /\ chat.startTime = <<"1">>
    /\ chat.endTime = <<"x">>
    /\ chat.fetched = <<>>
    /\ chat.status = 200
    /\ chat.body = <<>>

---------------------------------------------------------------------------
(* Claims about the chat-timecodes endpoint (checked under SpecTimecodes) *)

\* The response "available but empty": a 2xx status with an empty array.
AvailableButEmpty(status, body) ==
    status \in 200..299 /\ body.kind = "array" /\ body.items = <<>>

\* The response "chat unavailable": an error status with an error object.
ChatUnavailable(status, body) ==
    status \in 400..599 /\ body.kind = "object" /\ body.error # ""

\* C17: when the upstream index fetch returns a non-2xx status or fails, the
\* endpoint answers with an error response, which differs in status and in
\* body from the answer to an upstream index that is an empty array (200
\* with []).
C17_UnavailableIsNotEmpty ==
    timecodes.pc = "done" =>
        /\ ( timecodes.upResult = "rejected"
             \/ ( timecodes.upResult = "response"
                  /\ timecodes.upStatus \notin 200..299 ) ) =>
              /\ ChatUnavailable(timecodes.status, timecodes.body)
              /\ ~AvailableButEmpty(timecodes.status, timecodes.body)
        /\ ( timecodes.upResult = "response"
             /\ timecodes.upStatus \in 200..299
             /\ AvailableButEmpty(timecodes.upStatus, timecodes.upBody) ) =>
              /\ AvailableButEmpty(timecodes.status, timecodes.body)
              /\ ~ChatUnavailable(timecodes.status, timecodes.body)

C17_Witness ==
    /\ timecodes.pc = "done"
    /\ timecodes.upResult = "response"
    /\ timecodes.upStatus = 404
    /\ timecodes.upBody.kind = "array" /\ timecodes.upBody.items = <<>>
    /\ timecodes.status = 404
    /\ timecodes.body.error = "No chat data available"
    /\ timecodes.client = "loaded"

---------------------------------------------------------------------------
(* Claims about getVideoDuration (checked under SpecDuration) *)

\* The manifest was fetched: upstream answered with a 2xx status.
Fetched == dur.pc = "done" /\ dur.upResult = "response" /\ dur.upStatus \in 200..299

\* The lines of the manifest of the given kind.
LinesOfKind(kind) == { k \in 1..Len(dur.lines) : LineKinds[dur.lines[k]].kind = kind }

\* Sum, in tenths, of the values of the well-formed directives.
RECURSIVE DirectiveSum(_)
DirectiveSum(ls) ==
    IF ls = <<>> THEN 0
    ELSE LineKinds[ls[1]].tenths + DirectiveSum(Tail(ls))

\* n is the integer nearest to tenths / 10, the upper one of two.
NearestHalfUp(n, tenths) == 10 * n - 5 <= tenths /\ tenths < 10 * n + 5

\* The function returned the integer n.
ReturnedInteger(n) ==
    /\ ~dur.result.isNull
    /\ ~dur.result.number.nan
    /\ dur.result.number.tenths = 10 * n

\* C18: the duration returned for a manifest is the sum of the values of its
\* #EXTINF directives rounded to the nearest integer, a half going up;
\* directives 4.0, 4.0, 2.5 give 11.
C18_RoundedSum ==
    ( Fetched /\ LinesOfKind("malformed") = {} ) =>
        /\ \E n \in 0..(4 * MaxLines + 1) :
              /\ NearestHalfUp(n, DirectiveSum(dur.lines))
              /\ ReturnedInteger(n)
        /\ ( \E i, j, k \in 1..Len(LineKinds) :
                /\ dur.lines = <<i, j, k>>
                /\ LineKinds[i].tenths = 40
                /\ LineKinds[j].tenths = 40
                /\ LineKinds[k].tenths = 25 ) => ReturnedInteger(11)

C18_Witness ==
    /\ Fetched
    /\ Len(dur.lines) = 3
    /\ LinesOfKind("directive") = {1, 2, 3}
    /\ DirectiveSum(dur.lines) = 105
    /\ LineKinds[dur.lines[3]].tenths = 25
    /\ ReturnedInteger(11)

\* C19: for a fetched manifest without any #EXTINF directive the function
\* returns null, not 0; it returns 0 only when there are directives and
\* their values sum to zero.
C19_NoDirectiveIsNull ==
    Fetched =>
        /\ ( LinesOfKind("directive") = {} /\ LinesOfKind("malformed") = {} ) =>
              dur.result.isNull
        /\ ReturnedInteger(0) => LinesOfKind("directive") # {}

\* C20: a directive with a malformed value is passed over: the function
\* returns the rounded sum of the values of the well-formed directives, and
\* never NaN.
C20_MalformedSkipped ==
    ( Fetched /\ LinesOfKind("malformed") # {} /\ LinesOfKind("directive") # {} ) =>
        \E n \in 0..(4 * MaxLines + 1) :
            /\ NearestHalfUp(n, DirectiveSum(dur.lines))
            /\ ReturnedInteger(n)

---------------------------------------------------------------------------
(* Claims about the metadata store (checked under SpecSync) *)

\* The reconciliations that have loaded the store and not yet saved it.
BetweenLoadAndSave ==
    { i \in Triggers : meta.syncs[i].pc \in { "index", "duration", "save", "write" } }

\* Record b is record a, but for a duration that a lacked.
SameButDuration(a, b) ==
    /\ b.vodid = a.vodid
    /\ b.titled = a.titled
    /\ b.lastUpdated = a.lastUpdated
    /\ (b.duration = a.duration \/ a.duration.isNull)

\* C21: a reconciliation keeps every record of the store, each field as it
\* was but for a duration that was absent, and asks for the duration of no
\* key the store has a record of.
C21_RecordsKept ==
    \A i \in Triggers :
        /\ meta.syncs[i].pc = "write" =>
              \A k \in DOMAIN meta.durable :
                  /\ k \in DOMAIN meta.syncs[i].local
                  /\ SameButDuration(meta.durable[k], meta.syncs[i].local[k])
        /\ meta.syncs[i].event = "call" =>
              meta.syncs[i].key \notin DOMAIN meta.durable

\* C22: a read of the store made while a write of it is in progress sees
\* the whole table of before the write or the whole table being written.
C22_ReadsSeeWholeTable ==
    ( meta.read.reader = "videos" /\ meta.read.new # {} ) =>
        \/ meta.read.seen = meta.read.old
        \/ meta.read.seen \in meta.read.new

\* C23: at no time are two reconciliations between their load of the store
\* and their save of it.
C23_SingleWriter == Cardinality(BetweenLoadAndSave) <= 1

C25_UnreadableFileIsEmptyStore ==
    meta.file.state \in { "missing", "corrupt" } =>
        /\ meta.syncs["startup"].pc = "index" =>
              meta.syncs["startup"].local = EmptyTable
        /\ meta.read.reader = "videos" =>
              /\ meta.read.status = 200
              /\ meta.read.seen = EmptyTable

C25_Witness ==
    /\ meta.file.state = "corrupt"
    /\ meta.syncs["startup"].pc = "done"
    /\ meta.read.reader = "videos"
    /\ meta.read.file = "corrupt"
    /\ meta.read.status = 200
    /\ meta.read.seen = EmptyTable

\* C30: a reconciliation whose index fetch was answered with a status that
\* is not 2xx adds no record and writes nothing, whatever the body.
C30_NotOkIndexAddsNothing ==
    \A i \in Triggers :
        ( meta.syncs[i].status # 0 /\ meta.syncs[i].status \notin 200..299 ) =>
            /\ meta.syncs[i].pc \notin { "duration", "save", "write" }
            /\ ~meta.syncs[i].updated
            /\ ~meta.syncs[i].wrote

---------------------------------------------------------------------------
(* Claims about pending requests and disconnects of the container proxy *)

\* C26: every request the server has received is eventually answered, even
\* when upstream never answers the fetch made for it (checked under SpecLive).
C26_EveryRequestAnswered ==
    \A i \in 1..MaxReqs :
        ( Len(reqs) >= i ) ~> ( Len(reqs) >= i /\ reqs[i].status # 0 )

\* C27: once the client of a request of the container proxy has gone, no
\* upstream body of that request is open.
C27_DisconnectClosesUpstream ==
    \A i \in 1..Len(reqs) :
        reqs[i].client = "gone" => reqs[i].upStream # "open"

---------------------------------------------------------------------------
(* Claims about the emote routes (checked under SpecEmote) *)

\* The name of a request of the lookup route that one of the tables holds.
LookupOfKnownName ==
    /\ emote.pc \notin { "idle", "sent" }
    /\ EmoteLookupParam(emote.url) # <<>>
    /\ EmoteLookupParam(emote.url) \in DOMAIN emote.thirdParty \cup DOMAIN emote.firstParty

\* C28: a request of /api/emote/lookup/<name> for a name one of the emote
\* tables holds is handled by the lookup handler, and every upstream URL
\* fetched for it is that of an id the tables give for the name.
C28_LookupRouteHandlesLookup ==
    LookupOfKnownName =>
        /\ emote.route = "lookup"
        /\ \A n \in 1..Len(emote.fetched) :
              \/ /\ EmoteLookupParam(emote.url) \in DOMAIN emote.thirdParty
                 /\ emote.fetched[n] = EmotesBase \o ThirdPartyDir
                                          \o emote.thirdParty[EmoteLookupParam(emote.url)]
              \/ /\ EmoteLookupParam(emote.url) \in DOMAIN emote.firstParty
                 /\ emote.fetched[n] = EmotesBase \o FirstPartyDir
                                          \o emote.firstParty[EmoteLookupParam(emote.url)]

---------------------------------------------------------------------------
(* Claims about failing reconciliations (checked under SpecSync) *)

\* C31: when a reconciliation has failed and its catch block has returned,
\* no write being in progress, the file holds the last table that was
\* completely written to it, and that table is what is returned.
C31_FailedSyncLeavesStore ==
    \A i \in Triggers :
        ( meta.syncs[i].event = "recovered" /\ BeingWritten = {} ) =>
            /\ LoadMetadata(meta.file) = meta.durable
            /\ meta.syncs[i].local = meta.durable

\* A request was served, or a reconciliation other than startup's was run.
ServedOrTicked ==
    \/ meta.read.reader = "videos"
    \/ meta.syncs["manual"].pc # "idle"
    \/ meta.syncs["timer"].pc # "idle"

\* C32: the server listens only after startup's reconciliation and emote
\* load have returned, with the timer armed; no request is served and no
\* tick is handled before startup's reconciliation has finished.
C32_ListensAfterStartupSync ==
    /\ meta.boot \in { "emotes", "listening" } => meta.syncs["startup"].pc = "done"
    /\ meta.boot = "listening" => meta.armed
    /\ meta.armed => meta.boot = "listening"
    /\ ServedOrTicked =>
          /\ meta.boot = "listening"
          /\ meta.syncs["startup"].pc = "done"

C32_Witness ==
    /\ meta.boot = "listening"
    /\ meta.armed
    /\ meta.read.reader = "videos"
    /\ meta.read.seen # EmptyTable
    /\ meta.syncs["manual"].pc = "index"

---------------------------------------------------------------------------
(* Claims about the emote mappings (checked under SpecMappings) *)

\* C33: a refresh changes a mapping only when it settles the
\* response.json() of a response it got with a 2xx status and a body that is
\* JSON, and the mapping then is the whole body of that response; a mapping
\* whose fetch failed or was answered otherwise is left as it was.
C33_FailedRefreshKeepsMapping ==
    ( mappings # Idle /\ mappings.step.changed ) =>
        /\ mappings.step.response = "ok"
        /\ mappings.now[mappings.step.t] = mappings.step.n

\* The second refresh, alone, got a status that is not 2xx for the
\* third-party mapping, which is still that of the first, and has assigned
\* the two others.
C33_Witness ==
    /\ mappings # Idle
    /\ mappings.loads = 2
    /\ mappings.step.n = 2
    /\ mappings.step.t = "cheers"
    /\ mappings.step.changed
    /\ mappings.now["firstParty"] = 2
    /\ mappings.now["thirdParty"] = 1
    /\ mappings.now["cheers"] = 2

---------------------------------------------------------------------------
(* Claims about the position tracking of the page *)

\* The events of the player and of the window that may save a position.
SavingEvents == { "play", "pause", "seeked", "timer", "beforeunload" }

\* C35: every position in the storage has minSaveTime <= time <=
\* duration - 30, and a saveVideoPosition call with a time outside that
\* interval leaves the entry of the video as it was.
C35_SavedPositionInBounds ==
    player # Idle =>
        /\ player.saved.has =>
              /\ MinSaveTime <= player.saved.time
              /\ player.saved.time <= player.saved.duration - EndMargin
        /\ ( /\ player.call.made
             /\ \/ player.call.time < MinSaveTime
                \/ player.call.time > player.call.duration - EndMargin )
           => player.saved = player.call.before

\* saveVideoPosition was called with a time too near the end while a
\* position was stored.
C35_Witness ==
    /\ player # Idle
    /\ player.call.made
    /\ player.call.time > player.call.duration - EndMargin
    /\ player.call.duration - EndMargin >= MinSaveTime
    /\ player.call.before.has

\* C36: while isResuming is set the periodic save timer is not running, and
\* a play, pause, seeked, timer or beforeunload event that arrives while it
\* is set calls no saveVideoPosition and leaves the stored position; the
\* 'play' that follows the completed resume seek starts the periodic saving.
C36_NoSaveWhileResuming ==
    player # Idle =>
        /\ player.isResuming => ~player.saveTimer
        /\ ( player.was /\ player.event \in SavingEvents ) => ~player.call.made
        /\ ( player.event = "play" /\ player.resumed ) => player.saveTimer

\* The resume seek has completed and the playback has restarted.
C36_Witness ==
    /\ player # Idle
    /\ player.event = "play"
    /\ player.resumed
    /\ ~player.startedOver
    /\ player.currentTime = player.savedTime
    /\ player.saveTimer

\* C37: the seek to the saved time is issued at most once, only for a saved
\* time above resumeThreshold, never after Start Over; the click of Start
\* Over clears the saved position.
C37_ResumeSeekAtMostOnce ==
    player # Idle =>
        /\ player.resumeSeeks <= 1
        /\ player.resumeSeeks >= 1 => player.savedTime > ResumeThreshold
        /\ ~player.seekAfterStartOver
        /\ player.event = "startOver" => ~player.saved.has

\* Start Over is clicked after the seek to the saved time was issued.
C37_Witness ==
    /\ player # Idle
    /\ player.event = "startOver"
    /\ player.resumeSeeks = 1
    /\ player.metadata

---------------------------------------------------------------------------
(* Claims about the list of videos of the page *)

\* C38: currentPage is at least 1 and at most max(1, ceil(filteredVideos.length
\* / itemsPerPage)), and a change of a filter or of itemsPerPage leaves it 1.
C38_PageWithinBounds ==
    pager # Idle =>
        /\ pager.currentPage >= 1
        /\ pager.currentPage <= Larger(1, Ceil(Len(pager.filteredVideos), pager.itemsPerPage))
        /\ pager.event \in { "filter", "clear", "items" } => pager.currentPage = 1

\* A page number was typed while no video passed the filter.
C38_Witness ==
    /\ pager # Idle
    /\ pager.event = "page"
    /\ pager.filteredVideos = <<>>
    /\ pager.currentPage = 1

\* C39: after a renderVideos the grid keeps at most maxCachedItems elements,
\* the removed ones were last shown no later than any that is kept, the
\* videos of the page are all in the grid and displayed, and no other element
\* is displayed.
C39_GridWithinCache ==
    grid # Idle =>
        /\ Len(grid.items) <= MaxCachedItems
        /\ \A k \in Range(grid.items) : grid.latest <= grid.times[k]
        /\ Range(VideosToShow(pager)) \subseteq Range(grid.items)
        /\ grid.shown = Range(VideosToShow(pager))

---------------------------------------------------------------------------
(* Claims about the chat pane of the page *)

\* C40: once a seek has cleared the pane, the pane holds no message of a
\* request that was sent before the pane was last cleared, and its messages
\* are in the order their seconds were requested.
C40_PaneHoldsOnlyLaterSeconds ==
    ( pane # Idle /\ pane.cleared ) =>
        /\ \A i \in 1..Len(pane.chatMessages) : ~pane.chatMessages[i].stale
        /\ \A i, j \in 1..Len(pane.chatMessages) :
              i < j => pane.chatMessages[i].n <= pane.chatMessages[j].n

===========================================================================
